---- MODULE Spec2Model ----
(***************************************************************************)
(* Model of the PacManAI decision engine (the PacmanAI module):            *)
(* the ghost behaviour model with its persistence, the anti-oscillation    *)
(* tracker, the A* pathfinder, minimax / expectimax and the Pac-Man        *)
(* controllers.                                                            *)
(*                                                                         *)
(* Numbers: the code computes in IEEE doubles; the model computes the same *)
(* expressions in exact rationals [n, d] (d > 0), with JavaScript's        *)
(* +/-Infinity as the extra values PosInf / NegInf.                        *)
(***************************************************************************)
EXTENDS Integers, Sequences, FiniteSets, TLC

VARIABLES
    ghostObservations,     \* ghostObservations[ghostIdx][situation][move] = count
    totalObservations,     \* number of recorded ghost moves
    ghostModelConfidence,  \* stats.ghostModelConfidence
    saved,                 \* localStorage item 'pacman-ghost-model'
    moveHistory,           \* last HISTORY_LENGTH position keys
    positionVisitCount,    \* visits per position key
    scene,                 \* arguments of the call under way (map, positions, ...)
    ret                    \* what the last call returned

vars == <<ghostObservations, totalObservations, ghostModelConfidence, saved,
          moveHistory, positionVisitCount, scene, ret>>

modelVars == <<ghostObservations, totalObservations, ghostModelConfidence, saved>>
trackerVars == <<moveHistory, positionVisitCount>>

-----------------------------------------------------------------------------
(* Directions.  The code's direction constants are distinct numbers; only   *)
(* their identity matters.                                                  *)
UP == "UP"
DOWN == "DOWN"
LEFT == "LEFT"
RIGHT == "RIGHT"
NONE == "NONE"

\* var directions = [UP, DOWN, LEFT, RIGHT]
directions == <<UP, DOWN, LEFT, RIGHT>>
Dirs == {UP, DOWN, LEFT, RIGHT}

opposites == [d \in Dirs |->
    CASE d = UP -> DOWN [] d = DOWN -> UP [] d = LEFT -> RIGHT [] d = RIGHT -> LEFT]

-----------------------------------------------------------------------------
(* Arithmetic helpers.                                                      *)

Abs(v) == IF v < 0 THEN -v ELSE v
Min2(a, b) == IF a < b THEN a ELSE b

\* Math.round(v / 10) for an integer v: floor(v / 10 + 1/2).
Round10(v) == (v + 5) \div 10

\* Math.round(v / 2) for an integer v >= 0.
RoundHalf(v) == (v + 1) \div 2

RECURSIVE Gcd(_, _)
Gcd(a, b) == IF b = 0 THEN a ELSE Gcd(b, a % b)

\* The rational n / d in lowest terms, d > 0.
Rat(n, d) ==
    LET g == Gcd(Abs(n), Abs(d))
        s == IF d < 0 THEN -1 ELSE 1
    IN [n |-> s * (n \div g), d |-> s * (d \div g)]

RInt(k) == [n |-> k, d |-> 1]
\* Sums and comparisons over the least common denominator.
RAdd(a, b) ==
    LET g == Gcd(a.d, b.d)
    IN Rat(a.n * (b.d \div g) + b.n * (a.d \div g), (a.d \div g) * b.d)
RNeg(a) == [n |-> -a.n, d |-> a.d]
RSub(a, b) == RAdd(a, RNeg(b))
RMul(a, b) ==
    LET g1 == Gcd(Abs(a.n), b.d)
        g2 == Gcd(Abs(b.n), a.d)
    IN [n |-> (a.n \div g1) * (b.n \div g2), d |-> (a.d \div g2) * (b.d \div g1)]
RLess(a, b) ==
    LET g == Gcd(a.d, b.d)
    IN a.n * (b.d \div g) < b.n * (a.d \div g)
REq(a, b) == ~RLess(a, b) /\ ~RLess(b, a)

\* JavaScript's Infinity and -Infinity among the scores.
PosInf == [n |-> 1, d |-> 0]
NegInf == [n |-> -1, d |-> 0]
InfRank(a) == IF a.d = 0 THEN a.n ELSE 0
\* a < b over the rationals and the two infinities.
XLess(a, b) == IF a.d = 0 \/ b.d = 0 THEN InfRank(a) < InfRank(b) ELSE RLess(a, b)
\* Math.max(a, b) and Math.min(a, b)
XMax(a, b) == IF XLess(a, b) THEN b ELSE a
XMin(a, b) == IF XLess(b, a) THEN b ELSE a

RECURSIVE RSumSeq(_)
RSumSeq(s) == IF Len(s) = 0 THEN RInt(0) ELSE RAdd(Head(s), RSumSeq(Tail(s)))

-----------------------------------------------------------------------------
(* Grid.                                                                    *)

Pos(x, y) == [x |-> x, y |-> y]

toGrid(pos) == [x |-> Round10(pos.x), y |-> Round10(pos.y)]

manhattanDistance(pos1, pos2) == Abs(pos1.x - pos2.x) + Abs(pos1.y - pos2.y)

\* The cell one step from `cell` in direction `dir` (the deltas tables).
StepCell(cell, dir) ==
    CASE dir = UP -> [x |-> cell.x, y |-> cell.y - 1]
      [] dir = DOWN -> [x |-> cell.x, y |-> cell.y + 1]
      [] dir = LEFT -> [x |-> cell.x - 1, y |-> cell.y]
      [] dir = RIGHT -> [x |-> cell.x + 1, y |-> cell.y]

\* The pixel position one cell (10 pixels) from `pos` in direction `dir`.
StepPos(pos, dir) ==
    CASE dir = UP -> [x |-> pos.x, y |-> pos.y - 10]
      [] dir = DOWN -> [x |-> pos.x, y |-> pos.y + 10]
      [] dir = LEFT -> [x |-> pos.x - 10, y |-> pos.y]
      [] dir = RIGHT -> [x |-> pos.x + 10, y |-> pos.y]

-----------------------------------------------------------------------------
(* The map collaborator: a w x h grid of cells, each a wall, an empty floor  *)
(* cell, a biscuit (plain collectible) or a pill (power collectible).        *)

GridMap(w, h, wall, biscuit, pill) ==
    [w |-> w, h |-> h, wall |-> wall, biscuit |-> biscuit, pill |-> pill]

InBounds(map, cell) ==
    /\ cell.x >= 0 /\ cell.x < map.w
    /\ cell.y >= 0 /\ cell.y < map.h

\* mapData[y][x], "none" standing for undefined (outside the grid).
cellKind(map, cell) ==
    IF ~InBounds(map, cell) THEN "none"
    ELSE IF cell \in map.wall THEN "wall"
    ELSE IF cell \in map.biscuit THEN "biscuit"
    ELSE IF cell \in map.pill THEN "pill"
    ELSE "empty"

isFloorSpace(map, cell) == cellKind(map, cell) \in {"empty", "biscuit", "pill"}

MapCells(map) == {[x |-> cx, y |-> cy] : cx \in 0 .. (map.w - 1), cy \in 0 .. (map.h - 1)}

-----------------------------------------------------------------------------
(* ANTI-OSCILLATION TRACKER                                                 *)

HISTORY_LENGTH == 16

\* The cell a position key 'x,y' names; the key of a cell is the cell.
PosKey(pos) == toGrid(pos)

VisitCountOf(counts, key) == IF key \in DOMAIN counts THEN counts[key] ELSE 0

\* Mutant: the reversal test compares the candidate with lastMove itself.
IsReversalSame(move, lastMove) == lastMove # NONE /\ move = lastMove

\* lastMove !== undefined && lastMove !== NONE && move === opposites[lastMove]
IsReversal(move, lastMove) == lastMove # NONE /\ move = opposites[lastMove]

\* The history loop: entry i (0-based, 0 the oldest) equal to posKey adds
\* 50 * (1 + (length - i) / length).
RECURSIVE HistoryPenalty(_, _, _)
HistoryPenalty(history, posKey, j) ==
    IF j > Len(history) THEN RInt(0)
    ELSE LET len == Len(history)
             term == IF history[j] = posKey
                     THEN RMul(RInt(50), RAdd(RInt(1), Rat(len - (j - 1), len)))
                     ELSE RInt(0)
         IN RAdd(term, HistoryPenalty(history, posKey, j + 1))

VisitPenalty(visitCount) ==
    IF visitCount > 2 THEN RInt((visitCount - 2) * (visitCount - 2) * 30) ELSE RInt(0)

PenaltyIn(history, counts, pos, move, lastMove) ==
    LET posKey == StepCell(toGrid(pos), move)
    IN RAdd(RAdd(IF IsReversal(move, lastMove) THEN RInt(50) ELSE RInt(0),
                 HistoryPenalty(history, posKey, 1)),
            VisitPenalty(VisitCountOf(counts, posKey)))

getOscillationPenalty(pos, move, lastMove) ==
    PenaltyIn(moveHistory, positionVisitCount, pos, move, lastMove)

\* moveHistory after recordPosition(pos).
\* Mutant: a full history drops the key just pushed.
PushHistoryDropNewest(history, posKey) ==
    LET pushed == Append(history, posKey)
    IN IF Len(pushed) > HISTORY_LENGTH THEN SubSeq(pushed, 1, HISTORY_LENGTH) ELSE pushed

PushHistory(history, posKey) ==
    LET pushed == Append(history, posKey)
    IN IF Len(pushed) > HISTORY_LENGTH THEN Tail(pushed) ELSE pushed

\* positionVisitCount after recordPosition(pos).
CountVisit(counts, posKey) ==
    [k \in (DOMAIN counts) \cup {posKey} |->
        IF k = posKey THEN VisitCountOf(counts, k) + 1 ELSE counts[k]]

recordPosition(pos) ==
    /\ moveHistory' = PushHistory(moveHistory, PosKey(pos))
    /\ positionVisitCount' = CountVisit(positionVisitCount, PosKey(pos))
    /\ UNCHANGED <<modelVars, scene, ret>>

-----------------------------------------------------------------------------
(* A* PATHFINDING                                                           *)

TUNNEL_ROW == 10
MAP_WIDTH == 19

\* Mutant: the tunnel route alone, the direct distance left out of the minimum.
tunnelAwareDistanceTunnelOnly(pos1, pos2) ==
    Min2(Abs(pos1.x - 0) + Abs(pos1.y - TUNNEL_ROW) + 1
           + Abs(pos2.x - (MAP_WIDTH - 1)) + Abs(pos2.y - TUNNEL_ROW),
         Abs(pos1.x - (MAP_WIDTH - 1)) + Abs(pos1.y - TUNNEL_ROW) + 1
           + Abs(pos2.x - 0) + Abs(pos2.y - TUNNEL_ROW))

\* Mutant: the plain Manhattan distance, the tunnel left out.
tunnelAwareDistanceDirect(pos1, pos2) ==
    Abs(pos1.x - pos2.x) + Abs(pos1.y - pos2.y)

tunnelAwareDistance(pos1, pos2) ==
    LET directDist == Abs(pos1.x - pos2.x) + Abs(pos1.y - pos2.y)
        pos1ToTunnelLeft == Abs(pos1.x - 0) + Abs(pos1.y - TUNNEL_ROW)
        pos1ToTunnelRight == Abs(pos1.x - (MAP_WIDTH - 1)) + Abs(pos1.y - TUNNEL_ROW)
        pos2ToTunnelLeft == Abs(pos2.x - 0) + Abs(pos2.y - TUNNEL_ROW)
        pos2ToTunnelRight == Abs(pos2.x - (MAP_WIDTH - 1)) + Abs(pos2.y - TUNNEL_ROW)
        tunnelDist == Min2(pos1ToTunnelLeft + 1 + pos2ToTunnelRight,
                           pos1ToTunnelRight + 1 + pos2ToTunnelLeft)
    IN Min2(directDist, tunnelDist)

\* JavaScript's Infinity among the path scores, which are integers >= 0.
Infinity == -1
ScoreLess(a, b) == a # Infinity /\ (b = Infinity \/ a < b)
ScorePlus(a, k) == IF a = Infinity THEN Infinity ELSE a + k

\* table[key(pos)] || Infinity: Infinity for a missing entry and for a score
\* of 0, which is falsy.
OrInfinity(table, cell) ==
    IF cell \in DOMAIN table /\ table[cell] # 0 THEN table[cell] ELSE Infinity

\* table[key] = value
Put(table, key, value) ==
    [k \in (DOMAIN table) \cup {key} |-> IF k = key THEN value ELSE table[k]]

\* openSet.reduce(function(a, b) { return f(a) < f(b) ? a : b; })
RECURSIVE ReduceFrom(_, _, _, _)
ReduceFrom(openSet, fScore, acc, j) ==
    IF j > Len(openSet) THEN acc
    ELSE ReduceFrom(openSet, fScore,
                    IF ScoreLess(OrInfinity(fScore, acc), OrInfinity(fScore, openSet[j]))
                    THEN acc ELSE openSet[j],
                    j + 1)

LowestF(openSet, fScore) == ReduceFrom(openSet, fScore, openSet[1], 2)

\* openSet.filter(n => !(n.x === current.x && n.y === current.y))
RECURSIVE Without(_, _)
Without(openSet, cell) ==
    IF Len(openSet) = 0 THEN << >>
    ELSE IF Head(openSet) = cell THEN Without(Tail(openSet), cell)
    ELSE <<Head(openSet)>> \o Without(Tail(openSet), cell)

InSeq(openSet, cell) == \E j \in 1 .. Len(openSet) : openSet[j] = cell

\* The path from the search start to `cell` along the cameFrom pointers.
RECURSIVE PathTo(_, _)
PathTo(cameFrom, cell) ==
    IF cell \in DOMAIN cameFrom
    THEN Append(PathTo(cameFrom, cameFrom[cell]), cell)
    ELSE <<cell>>

\* The four neighbours, then the tunnel connection at row 10.
AstarNeighbors(current) ==
    <<[x |-> current.x + 1, y |-> current.y],
      [x |-> current.x - 1, y |-> current.y],
      [x |-> current.x, y |-> current.y + 1],
      [x |-> current.x, y |-> current.y - 1]>>
    \o (IF current.y = TUNNEL_ROW /\ current.x = 0
        THEN <<[x |-> MAP_WIDTH - 1, y |-> TUNNEL_ROW]>>
        ELSE IF current.y = TUNNEL_ROW /\ current.x = MAP_WIDTH - 1
        THEN <<[x |-> 0, y |-> TUNNEL_ROW]>>
        ELSE << >>)

\* The direction of the path's first edge, with the tunnel wrap.
AstarDirection(startGrid, next) ==
    LET dx == next.x - startGrid.x
        dy == next.y - startGrid.y
    IN IF startGrid.y = TUNNEL_ROW /\ next.y = TUNNEL_ROW
       THEN IF startGrid.x = 0 /\ next.x = MAP_WIDTH - 1 THEN LEFT
            ELSE IF startGrid.x = MAP_WIDTH - 1 /\ next.x = 0 THEN RIGHT
            ELSE IF dx > 0 THEN RIGHT
            ELSE IF dx < 0 THEN LEFT
            ELSE NONE
       ELSE IF dx > 0 THEN RIGHT
            ELSE IF dx < 0 THEN LEFT
            ELSE IF dy > 0 THEN DOWN
            ELSE IF dy < 0 THEN UP
            ELSE NONE

\* The body of the neighbour loop for one neighbour; st holds openSet,
\* cameFrom, gScore and fScore.
AstarRelax(map, goalGrid, current, neighbor, st) ==
    IF ~isFloorSpace(map, neighbor) THEN st
    ELSE LET tentativeG == ScorePlus(OrInfinity(st.gScore, current), 1)
         IN IF ScoreLess(tentativeG, OrInfinity(st.gScore, neighbor))
            THEN [openSet |-> IF InSeq(st.openSet, neighbor) THEN st.openSet
                              ELSE Append(st.openSet, neighbor),
                  cameFrom |-> Put(st.cameFrom, neighbor, current),
                  gScore |-> Put(st.gScore, neighbor, tentativeG),
                  fScore |-> Put(st.fScore, neighbor,
                                 tentativeG + tunnelAwareDistance(neighbor, goalGrid))]
            ELSE st

RECURSIVE AstarRelaxAll(_, _, _, _, _, _)
AstarRelaxAll(map, goalGrid, current, neighbors, j, st) ==
    IF j > Len(neighbors) THEN st
    ELSE AstarRelaxAll(map, goalGrid, current, neighbors, j + 1,
                       AstarRelax(map, goalGrid, current, neighbors[j], st))

\* The safety limit of the search loop.
AstarLimit == 500

\* The while loop of astar from the loop state st, nodesEvaluated so far.
RECURSIVE AstarLoop(_, _, _, _, _)
AstarLoop(map, startGrid, goalGrid, st, nodesEvaluated) ==
    IF Len(st.openSet) = 0
    THEN [direction |-> NONE, nodesEvaluated |-> nodesEvaluated]
    ELSE LET nodes1 == nodesEvaluated + 1
             current == LowestF(st.openSet, st.fScore)
         IN IF current = goalGrid
            THEN LET path == PathTo(st.cameFrom, current)
                 IN IF Len(path) > 1
                    THEN [direction |-> AstarDirection(startGrid, path[2]),
                          nodesEvaluated |-> nodes1]
                    ELSE [direction |-> NONE, nodesEvaluated |-> nodes1]
            ELSE LET removed == [st EXCEPT !.openSet = Without(st.openSet, current)]
                     st1 == AstarRelaxAll(map, goalGrid, current,
                                          AstarNeighbors(current), 1, removed)
                 IN IF nodes1 > AstarLimit
                    THEN [direction |-> NONE, nodesEvaluated |-> nodes1]
                    ELSE AstarLoop(map, startGrid, goalGrid, st1, nodes1)

astar(map, start, goal) ==
    LET startGrid == toGrid(start)
        goalGrid == toGrid(goal)
        st0 == [openSet |-> <<startGrid>>,
                cameFrom |-> << >>,
                gScore |-> Put(<< >>, startGrid, 0),
                fScore |-> Put(<< >>, startGrid, tunnelAwareDistance(startGrid, goalGrid))]
    IN AstarLoop(map, startGrid, goalGrid, st0, 0)

-----------------------------------------------------------------------------
(* GHOST MODEL                                                              *)

SMOOTHING == 1
GhostCount == 4
GhostIdxs == 0 .. (GhostCount - 1)

\* The observation table of resetGhostModel: an empty bucket map per ghost.
EmptyBuckets == << >>
EmptyTable == [i \in GhostIdxs |-> EmptyBuckets]

\* A bucket as recordGhostMove creates it.
ZeroBucket == [d \in Dirs |-> 0]

\* The situation key: horizontal + vertical + '_' + distCat, kept as the triple.
getSituation(ghostPos, pacmanPos) ==
    LET gx == Round10(ghostPos.x)
        gy == Round10(ghostPos.y)
        px == Round10(pacmanPos.x)
        py == Round10(pacmanPos.y)
        dx == px - gx
        dy == py - gy
        horizontal == IF dx > 2 THEN "R" ELSE IF dx < -2 THEN "L" ELSE "H"
        vertical == IF dy > 2 THEN "D" ELSE IF dy < -2 THEN "U" ELSE "V"
        dist == Abs(dx) + Abs(dy)
        distCat == IF dist < 5 THEN "near" ELSE IF dist < 10 THEN "mid" ELSE "far"
    IN <<horizontal, vertical, distCat>>

\* Math.min(100, Math.round(totalObservations / 2))
Confidence(total) == Min2(100, RoundHalf(total))

\* localStorage: no item, an item JSON.parse rejects, or a stored object.
NoItem == [kind |-> "none"]
CorruptItem == [kind |-> "corrupt"]
Snapshot(obs, total) == [kind |-> "data", observations |-> obs, total |-> total]

\* saveGhostModel: setItem may throw (storage unavailable or full); the error
\* is swallowed and the stored item stays as it was.
saveGhostModel(obs, total, storageOk) ==
    IF storageOk THEN Snapshot(obs, total) ELSE saved

\* loadGhostModel's effect on <<ghostObservations, totalObservations,
\* ghostModelConfidence>> from the state of a freshly evaluated module,
\* followed by the module's "start fresh" loop when it returns false.
\* Mutant: a restored table is taken as it is, its missing ghosts not filled in.
loadGhostModelNoFill(item) ==
    IF item.kind = "data"
    THEN [observations |-> item.observations, total |-> item.total,
          confidence |-> Confidence(item.total)]
    ELSE [observations |-> EmptyTable, total |-> 0, confidence |-> 0]

loadGhostModel(item) ==
    IF item.kind = "data"
    THEN LET obs == item.observations
             full == [i \in (DOMAIN obs) \cup GhostIdxs |->
                         IF i \in DOMAIN obs THEN obs[i] ELSE EmptyBuckets]
         IN [observations |-> full, total |-> item.total,
             confidence |-> Confidence(item.total)]
    ELSE [observations |-> EmptyTable, total |-> 0, confidence |-> 0]

\* ghostObservations[ghostIdx][situation] throws a TypeError when the table
\* has no entry for ghostIdx (indexing undefined).
TableLookupThrows(ghostIdx) == ghostIdx \notin DOMAIN ghostObservations

\* Mutant: the frequencies without the Laplace smoothing.
ProbabilitiesUnsmoothed(table, ghostIdx, ghostPos, pacmanPos) ==
    LET situation == getSituation(ghostPos, pacmanPos) IN
    IF situation \notin DOMAIN table[ghostIdx]
    THEN [d \in Dirs |-> Rat(1, 4)]
    ELSE LET obs == table[ghostIdx][situation]
             total == obs[UP] + obs[DOWN] + obs[LEFT] + obs[RIGHT]
         IN [d \in Dirs |-> Rat(obs[d], total)]

ProbTotal(obs) == SMOOTHING * 4 + obs[UP] + obs[DOWN] + obs[LEFT] + obs[RIGHT]

\* The body of getGhostMoveProbabilities, reading the observation table
\* `table`.  Defined when the table has an entry for ghostIdx.
Probabilities(table, ghostIdx, ghostPos, pacmanPos) ==
    LET situation == getSituation(ghostPos, pacmanPos) IN
    IF situation \notin DOMAIN table[ghostIdx]
    THEN [d \in Dirs |-> Rat(1, 4)]
    ELSE LET obs == table[ghostIdx][situation]
             total == ProbTotal(obs)
         IN [d \in Dirs |-> Rat(obs[d] + SMOOTHING, total)]

getGhostMoveProbabilities(ghostIdx, ghostPos, pacmanPos) ==
    Probabilities(ghostObservations, ghostIdx, ghostPos, pacmanPos)

\* Mutant: the bucket is created but the move is not counted.
BumpBucketUncounted(buckets, situation, move) ==
    [s \in (DOMAIN buckets) \cup {situation} |->
        IF s \in DOMAIN buckets THEN buckets[s] ELSE [d \in Dirs |-> 0]]

\* Mutant: every direction of the bucket is counted, not the move alone.
BumpBucketAll(buckets, situation, move) ==
    LET old == IF situation \in DOMAIN buckets THEN buckets[situation] ELSE [d \in Dirs |-> 0]
    IN [s \in (DOMAIN buckets) \cup {situation} |->
           IF s = situation THEN [d \in Dirs |-> old[d] + 1] ELSE buckets[s]]

\* The bucket map of one ghost after counting one more `move` in `situation`.
BumpBucket(buckets, situation, move) ==
    LET old == IF situation \in DOMAIN buckets THEN buckets[situation] ELSE ZeroBucket
        new == [old EXCEPT ![move] = @ + 1]
    IN [s \in (DOMAIN buckets) \cup {situation} |->
           IF s = situation THEN new ELSE buckets[s]]

\* Mutant: every observation is persisted.
FlushDueAlways(total) == TRUE

\* Persist every 10 observations.
FlushDue(total) == total % 10 = 0

-----------------------------------------------------------------------------
(* Moves and collectibles.                                                  *)

getValidMoves(map, pos) ==
    SelectSeq(directions, LAMBDA dir : isFloorSpace(map, StepCell(toGrid(pos), dir)))

\* Row-major scan order of the map data: rows top to bottom, then columns.
ScannedBefore(a, b) == a.y < b.y \/ (a.y = b.y /\ a.x < b.x)

\* The scan for the nearest cell among `cells`: the first one, in scan order,
\* at the least Manhattan distance from pos; found is FALSE for null.
NearestOf(cells, pos) ==
    IF cells = {} THEN [found |-> FALSE]
    ELSE [found |-> TRUE,
          cell |-> CHOOSE c \in cells : \A o \in cells \ {c} :
                      \/ manhattanDistance(pos, c) < manhattanDistance(pos, o)
                      \/ /\ manhattanDistance(pos, c) = manhattanDistance(pos, o)
                         /\ ScannedBefore(c, o)]

KindCells(map, kinds) == {c \in MapCells(map) : cellKind(map, c) \in kinds}

findNearestPellet(map, pos) == NearestOf(KindCells(map, {"biscuit", "pill"}), pos)
findNearestRegularPellet(map, pos) == NearestOf(KindCells(map, {"biscuit"}), pos)
findNearestPowerPellet(map, pos) == NearestOf(KindCells(map, {"pill"}), pos)

-----------------------------------------------------------------------------
(* STATIC EVALUATOR                                                         *)

Indices(seq) == 1 .. Len(seq)

\* The least of a non-empty set of numbers.
MinOf(nums) == CHOOSE m \in nums : \A o \in nums : m <= o

\* Mutant: the danger bands with their upper limits included.
DangerTermInclusive(dist) ==
    IF dist <= 2 THEN RInt(-2000)
    ELSE IF dist <= 4 THEN Rat(-500, dist)
    ELSE IF dist <= 8 THEN Rat(-50, dist)
    ELSE RInt(0)

DangerTerm(dist) ==
    IF dist < 2 THEN RInt(-2000)
    ELSE IF dist < 4 THEN Rat(-500, dist)
    ELSE IF dist < 8 THEN Rat(-50, dist)
    ELSE RInt(0)

EdibleTerm(dist) ==
    IF dist = 0 THEN RInt(1000)
    ELSE IF dist < 5 THEN Rat(400, dist)
    ELSE IF dist < 10 THEN Rat(100, dist)
    ELSE RInt(0)

RECURSIVE SumTerms(_, _)
SumTerms(f, idxs) ==
    IF idxs = {} THEN RInt(0)
    ELSE LET i == CHOOSE i \in idxs : TRUE
         IN RAdd(f[i], SumTerms(f, idxs \ {i}))

evaluateState(map, pacmanPos, ghostPositions, ghostStates) ==
    LET pacmanGrid == toGrid(pacmanPos)
        \* the partition: edible ghosts, and every other ghost as dangerous
        edibleGhosts == {i \in Indices(ghostPositions) : ghostStates[i].isEdible}
        dangerousGhosts == {i \in Indices(ghostPositions) : ~ghostStates[i].isEdible}
        dist == [i \in Indices(ghostPositions) |->
                    manhattanDistance(pacmanGrid, toGrid(ghostPositions[i]))]
        danger == SumTerms([i \in dangerousGhosts |-> DangerTerm(dist[i])], dangerousGhosts)
        edible == SumTerms([i \in edibleGhosts |-> EdibleTerm(dist[i])], edibleGhosts)
        here == cellKind(map, pacmanGrid)
        biscuit == IF here = "biscuit" THEN RInt(50) ELSE RInt(0)
        pill == IF here = "pill"
                THEN IF /\ dangerousGhosts # {}
                        /\ edibleGhosts = {}
                        /\ MinOf({dist[i] : i \in dangerousGhosts}) < 10
                     THEN RInt(500) ELSE RInt(150)
                ELSE RInt(0)
        nearestPellet == findNearestPellet(map, pacmanGrid)
        seek == IF /\ edibleGhosts = {}
                   /\ (dangerousGhosts = {} \/ MinOf({dist[i] : i \in dangerousGhosts}) > 8)
                   /\ nearestPellet.found
                THEN RInt(30 - manhattanDistance(pacmanGrid, nearestPellet.cell))
                ELSE RInt(0)
    IN RAdd(RAdd(RAdd(RAdd(danger, edible), biscuit), pill), seek)

-----------------------------------------------------------------------------
(* MINIMAX                                                                  *)

\* Mutant: the pruning test with its comparison turned round.
PruneTestInverted(alpha, beta) == ~XLess(beta, alpha)

\* beta <= alpha
\* Mutant: the loop breaks after its first candidate whatever the bounds.
PruneTestAlways(alpha, beta) == TRUE

PruneTest(alpha, beta) == ~XLess(alpha, beta)

\* One ghost's step in the ghosts' turn.
MinimaxGhostStep(map, pacmanPos, gPos, gState) ==
    LET gGrid == toGrid(gPos)
        pGrid == toGrid(pacmanPos)
        dx == pGrid.x - gGrid.x
        dy == pGrid.y - gGrid.y
        multiplier == IF gState.isEdible THEN -1 ELSE 1
        moveX == IF dx # 0 THEN (IF dx > 0 THEN 10 * multiplier ELSE -10 * multiplier) ELSE 0
        moveY == IF dy # 0 THEN (IF dy > 0 THEN 10 * multiplier ELSE -10 * multiplier) ELSE 0
        xPos == [x |-> gPos.x + moveX, y |-> gPos.y]
        yPos == [x |-> gPos.x, y |-> gPos.y + moveY]
    IN IF Abs(dx) > Abs(dy) /\ isFloorSpace(map, toGrid(xPos)) THEN xPos
       ELSE IF isFloorSpace(map, toGrid(yPos)) THEN yPos
       ELSE gPos

\* minimax(map, pacmanPos, ghostPositions, ghostStates, depth, isMaximizing,
\* alpha, beta, nodesRef): the value returned and the nodes it counted.  With
\* pruning FALSE the break of the maximizing loop is left out.
RECURSIVE MinimaxSearch(_, _, _, _, _, _, _, _, _)
RECURSIVE MinimaxMaxLoop(_, _, _, _, _, _, _, _, _, _, _, _)

MinimaxMaxLoop(pruning, map, pacmanPos, ghostPositions, ghostStates, depth, validMoves, i, maxEval, alpha, beta, nodes) ==
    IF i > Len(validMoves) THEN [value |-> maxEval, nodes |-> nodes]
    ELSE LET r == MinimaxSearch(pruning, map, StepPos(pacmanPos, validMoves[i]),
                                ghostPositions, ghostStates, depth - 1, FALSE, alpha, beta)
             maxEval1 == XMax(maxEval, r.value)
             alpha1 == XMax(alpha, r.value)
         IN IF pruning /\ PruneTest(alpha1, beta)
            THEN [value |-> maxEval1, nodes |-> nodes + r.nodes]
            ELSE MinimaxMaxLoop(pruning, map, pacmanPos, ghostPositions, ghostStates,
                                depth, validMoves, i + 1, maxEval1, alpha1, beta,
                                nodes + r.nodes)

MinimaxSearch(pruning, map, pacmanPos, ghostPositions, ghostStates, depth, isMaximizing, alpha, beta) ==
    LET validMoves == getValidMoves(map, pacmanPos) IN
    IF depth = 0 \/ Len(validMoves) = 0
    THEN [value |-> evaluateState(map, pacmanPos, ghostPositions, ghostStates), nodes |-> 1]
    ELSE IF isMaximizing
    THEN MinimaxMaxLoop(pruning, map, pacmanPos, ghostPositions, ghostStates, depth,
                        validMoves, 1, NegInf, alpha, beta, 1)
    ELSE LET newGhostPositions ==
                 [i \in Indices(ghostPositions) |->
                     MinimaxGhostStep(map, pacmanPos, ghostPositions[i], ghostStates[i])]
             r == MinimaxSearch(pruning, map, pacmanPos, newGhostPositions, ghostStates,
                                depth - 1, TRUE, alpha, beta)
         IN [value |-> XMin(PosInf, r.value), nodes |-> 1 + r.nodes]

minimax(map, pacmanPos, ghostPositions, ghostStates, depth, isMaximizing, alpha, beta) ==
    MinimaxSearch(TRUE, map, pacmanPos, ghostPositions, ghostStates, depth,
                  isMaximizing, alpha, beta)

-----------------------------------------------------------------------------
(* EXPECTIMAX                                                               *)

\* The most likely direction of a ghost other than ghost 0: the first, in the
\* order UP, DOWN, LEFT, RIGHT, whose probability beats the best so far.
RECURSIVE BestDirFrom(_, _, _, _)
BestDirFrom(probs, j, bestProb, bestDir) ==
    IF j > Len(directions) THEN bestDir
    ELSE IF RLess(bestProb, probs[directions[j]])
    THEN BestDirFrom(probs, j + 1, probs[directions[j]], directions[j])
    ELSE BestDirFrom(probs, j + 1, bestProb, bestDir)

\* One ghost's step in the ghosts' ply when ghost 0 takes direction dir.
ExpectimaxGhostStep(map, pacmanPos, gPos, idx, dir) ==
    LET gDir == IF idx > 0
                THEN BestDirFrom(getGhostMoveProbabilities(idx, gPos, pacmanPos), 1, RInt(0), UP)
                ELSE dir
        testPos == StepPos(gPos, gDir)
    IN IF isFloorSpace(map, toGrid(testPos)) THEN testPos ELSE gPos

\* Mutant: no branch is skipped.
SkipBranchNever(prob) == FALSE

\* Branches below this probability are skipped: prob < 0.01.
SkipBranch(prob) == RLess(prob, Rat(1, 100))

\* The values f[1] .. f[n] of a loop of at most four rounds, in order.
Rounds(f, n) ==
    SubSeq(<<IF 1 <= n THEN f[1] ELSE NONE, IF 2 <= n THEN f[2] ELSE NONE,
             IF 3 <= n THEN f[3] ELSE NONE, IF 4 <= n THEN f[4] ELSE NONE>>, 1, n)

\* maxEval = Math.max(maxEval, evalScore) over the rounds, from -Infinity.
RECURSIVE MaxEvalFrom(_, _, _)
MaxEvalFrom(rs, i, maxEval) ==
    IF i > Len(rs) THEN maxEval ELSE MaxEvalFrom(rs, i + 1, XMax(maxEval, rs[i].value))

\* expectedValue += prob * evalScore over the directions not skipped.
RECURSIVE ExpectedFrom(_, _, _, _)
ExpectedFrom(rs, probs, j, expectedValue) ==
    IF j > Len(rs) THEN expectedValue
    ELSE ExpectedFrom(rs, probs, j + 1,
                      IF rs[j].nodes = 0 THEN expectedValue
                      ELSE RAdd(expectedValue, RMul(probs[directions[j]], rs[j].value)))

RECURSIVE NodesFrom(_, _)
NodesFrom(rs, i) == IF i > Len(rs) THEN 0 ELSE rs[i].nodes + NodesFrom(rs, i + 1)

\* expectimax(map, pacmanPos, ghostPositions, ghostStates, depth,
\* isMaximizing, nodesRef), for at least one ghost (the ghosts' ply reads
\* ghostPositions[0]): the value returned and the nodes it counted.  A
\* skipped direction is a round that counted no node.
RECURSIVE expectimax(_, _, _, _, _, _)
expectimax(map, pacmanPos, ghostPositions, ghostStates, depth, isMaximizing) ==
    LET validMoves == getValidMoves(map, pacmanPos)
        probs == getGhostMoveProbabilities(0, ghostPositions[1], pacmanPos)
        MaxRound(i) == expectimax(map, StepPos(pacmanPos, validMoves[i]), ghostPositions,
                                  ghostStates, depth - 1, FALSE)
        GhostRound(j) ==
            IF SkipBranch(probs[directions[j]]) THEN [value |-> RInt(0), nodes |-> 0]
            ELSE expectimax(map, pacmanPos,
                            [idx1 \in Indices(ghostPositions) |->
                                ExpectimaxGhostStep(map, pacmanPos, ghostPositions[idx1],
                                                    idx1 - 1, directions[j])],
                            ghostStates, depth - 1, TRUE)
    IN IF depth = 0 \/ Len(validMoves) = 0
       THEN [value |-> evaluateState(map, pacmanPos, ghostPositions, ghostStates),
             nodes |-> 1]
       ELSE IF isMaximizing
       THEN LET rs == Rounds([i \in Indices(validMoves) |-> MaxRound(i)], Len(validMoves))
            IN [value |-> MaxEvalFrom(rs, 1, NegInf), nodes |-> 1 + NodesFrom(rs, 1)]
       ELSE LET rs == Rounds([j \in Indices(directions) |-> GhostRound(j)], Len(directions))
            IN [value |-> ExpectedFrom(rs, probs, 1, RInt(0)),
                nodes |-> 1 + NodesFrom(rs, 1)]

-----------------------------------------------------------------------------
(* PAC-MAN AI CONTROLLERS                                                   *)
(* Each decision operator gives [move, recorded]: the direction returned    *)
(* and whether recordPosition(pacmanPos) ran before the return.             *)

\* The selection loop: bestMove = validMoves[0], bestScore = -Infinity, and a
\* candidate replaces the best when its score is strictly greater.
RECURSIVE BestFrom(_, _, _, _, _)
BestFrom(validMoves, scores, i, bestMove, bestScore) ==
    IF i > Len(validMoves) THEN bestMove
    ELSE IF XLess(bestScore, scores[i])
    THEN BestFrom(validMoves, scores, i + 1, validMoves[i], scores[i])
    ELSE BestFrom(validMoves, scores, i + 1, bestMove, bestScore)

BestMove(validMoves, scores) == BestFrom(validMoves, scores, 1, validMoves[1], NegInf)

Decision(move, recorded) == [move |-> move, recorded |-> recorded]

\* Mutant: greedy without its guard for an agent with no valid move, the
\* search loop's initial bestMove standing in.
greedyUnguarded(map, pacmanPos, lastMove) ==
    LET validMoves == getValidMoves(map, pacmanPos)
        nearest == findNearestPellet(map, toGrid(pacmanPos))
        scores == [i \in Indices(validMoves) |->
                      RSub(RInt(-manhattanDistance(
                               StepCell(toGrid(pacmanPos), validMoves[i]),
                               IF nearest.found THEN nearest.cell ELSE toGrid(pacmanPos))),
                           getOscillationPenalty(pacmanPos, validMoves[i], lastMove))]
    IN IF Len(validMoves) = 0 THEN Decision(UP, TRUE)
       ELSE IF ~nearest.found THEN Decision(validMoves[1], TRUE)
       ELSE Decision(BestMove(validMoves, scores), TRUE)

\* Mutant: greedy scoring a candidate by its distance instead of by minus
\* its distance.
greedySignLost(map, pacmanPos, lastMove) ==
    LET validMoves == getValidMoves(map, pacmanPos)
        nearest == findNearestPellet(map, toGrid(pacmanPos))
        scores == [i \in Indices(validMoves) |->
                      RSub(RInt(manhattanDistance(
                               StepCell(toGrid(pacmanPos), validMoves[i]),
                               IF nearest.found THEN nearest.cell ELSE toGrid(pacmanPos))),
                           getOscillationPenalty(pacmanPos, validMoves[i], lastMove))]
    IN IF Len(validMoves) = 0 THEN Decision(NONE, FALSE)
       ELSE IF ~nearest.found THEN Decision(validMoves[1], TRUE)
       ELSE Decision(BestMove(validMoves, scores), TRUE)

greedy(map, pacmanPos, lastMove) ==
    LET pacmanGrid == toGrid(pacmanPos)
        validMoves == getValidMoves(map, pacmanPos)
        nearest == findNearestPellet(map, pacmanGrid)
        scores == [i \in Indices(validMoves) |->
                      RSub(RInt(-manhattanDistance(StepCell(pacmanGrid, validMoves[i]),
                                                   nearest.cell)),
                           getOscillationPenalty(pacmanPos, validMoves[i], lastMove))]
    IN IF Len(validMoves) = 0 THEN Decision(NONE, FALSE)
       ELSE IF ~nearest.found THEN Decision(validMoves[1], TRUE)
       ELSE Decision(BestMove(validMoves, scores), TRUE)

\* random: draw[dir] is the value of Math.random() * 10 drawn for dir.
random(map, pacmanPos, lastMove, draw) ==
    LET moves == getValidMoves(map, pacmanPos)
        scores == [i \in Indices(moves) |->
                      RSub(RInt(draw[moves[i]]),
                           getOscillationPenalty(pacmanPos, moves[i], lastMove))]
    IN IF Len(moves) = 0 THEN Decision(NONE, FALSE)
       ELSE Decision(BestMove(moves, scores), TRUE)

\* dangerCost(pos) of the astar controller.
dangerCost(huntingGhost, dangerousGhostGrids, pos) ==
    IF huntingGhost THEN 0
    ELSE LET cost(i) ==
                 LET dist == manhattanDistance(pos, dangerousGhostGrids[i])
                 IN IF dist < 2 THEN 50 ELSE IF dist < 4 THEN 20 ELSE IF dist < 6 THEN 5 ELSE 0
             RECURSIVE Sum(_)
             Sum(i) == IF i > Len(dangerousGhostGrids) THEN 0 ELSE cost(i) + Sum(i + 1)
         IN Sum(1)

\* The four neighbours of the controller's own search (no tunnel).
CtlNeighbors(current) ==
    <<[x |-> current.x + 1, y |-> current.y],
      [x |-> current.x - 1, y |-> current.y],
      [x |-> current.x, y |-> current.y + 1],
      [x |-> current.x, y |-> current.y - 1]>>

CtlDirection(pacmanGrid, next) ==
    LET dx == next.x - pacmanGrid.x
        dy == next.y - pacmanGrid.y
    IN IF dx > 0 THEN RIGHT
       ELSE IF dx < 0 THEN LEFT
       ELSE IF dy > 0 THEN DOWN
       ELSE IF dy < 0 THEN UP
       ELSE NONE

CtlRelax(map, goalGrid, hunting, dangerGrids, current, neighbor, st) ==
    IF ~isFloorSpace(map, neighbor) THEN st
    ELSE LET moveCost == 1 + dangerCost(hunting, dangerGrids, neighbor)
             tentativeG == ScorePlus(OrInfinity(st.gScore, current), moveCost)
         IN IF ScoreLess(tentativeG, OrInfinity(st.gScore, neighbor))
            THEN [openSet |-> IF InSeq(st.openSet, neighbor) THEN st.openSet
                              ELSE Append(st.openSet, neighbor),
                  cameFrom |-> Put(st.cameFrom, neighbor, current),
                  gScore |-> Put(st.gScore, neighbor, tentativeG),
                  fScore |-> Put(st.fScore, neighbor,
                                 tentativeG + manhattanDistance(neighbor, goalGrid))]
            ELSE st

RECURSIVE CtlRelaxAll(_, _, _, _, _, _, _, _)
CtlRelaxAll(map, goalGrid, hunting, dangerGrids, current, neighbors, j, st) ==
    IF j > Len(neighbors) THEN st
    ELSE CtlRelaxAll(map, goalGrid, hunting, dangerGrids, current, neighbors, j + 1,
                     CtlRelax(map, goalGrid, hunting, dangerGrids, current, neighbors[j], st))

\* The search loop of the astar controller: found with the direction it
\* returns, or not found when the loop ends or breaks.
RECURSIVE CtlLoop(_, _, _, _, _, _, _)
CtlLoop(map, pacmanGrid, goalGrid, hunting, dangerGrids, st, nodesEvaluated) ==
    IF Len(st.openSet) = 0 THEN [found |-> FALSE]
    ELSE LET nodes1 == nodesEvaluated + 1
             current == LowestF(st.openSet, st.fScore)
         IN IF current = goalGrid
            THEN LET path == PathTo(st.cameFrom, current)
                 IN IF Len(path) > 1
                    THEN [found |-> TRUE, direction |-> CtlDirection(pacmanGrid, path[2])]
                    ELSE [found |-> FALSE]
            ELSE LET removed == [st EXCEPT !.openSet = Without(st.openSet, current)]
                     st1 == CtlRelaxAll(map, goalGrid, hunting, dangerGrids, current,
                                        CtlNeighbors(current), 1, removed)
                 IN IF nodes1 > AstarLimit THEN [found |-> FALSE]
                    ELSE CtlLoop(map, pacmanGrid, goalGrid, hunting, dangerGrids, st1, nodes1)

\* The goal of the astar controller: nearest edible ghost, else a power
\* pellet when a dangerous ghost is within 8, else a regular pellet.
CtlGoal(map, pacmanGrid, ghostPositions, ghostStates) ==
    LET edible == {i \in Indices(ghostPositions) : ghostStates[i].isEdible}
        dangerous == {i \in Indices(ghostPositions) :
                         ~ghostStates[i].isEdible /\ ghostStates[i].isDangerous}
        grid(i) == toGrid(ghostPositions[i])
        dist(i) == manhattanDistance(pacmanGrid, grid(i))
        nearestGhost == CHOOSE i \in edible : \A o \in edible \ {i} :
                            dist(i) < dist(o) \/ (dist(i) = dist(o) /\ i < o)
        power == findNearestPowerPellet(map, pacmanGrid)
        regular == findNearestRegularPellet(map, pacmanGrid)
    IN IF edible # {} THEN [found |-> TRUE, cell |-> grid(nearestGhost)]
       ELSE IF dangerous # {} /\ MinOf({dist(i) : i \in dangerous}) < 8
       THEN (IF power.found THEN power ELSE regular)
       ELSE (IF regular.found THEN regular ELSE power)

astarController(map, pacmanPos, ghostPositions, ghostStates, lastMove) ==
    LET pacmanGrid == toGrid(pacmanPos)
        hunting == \E i \in Indices(ghostPositions) : ghostStates[i].isEdible
        dangerIdx == SelectSeq([i \in Indices(ghostPositions) |-> i],
                               LAMBDA i : ~ghostStates[i].isEdible /\ ghostStates[i].isDangerous)
        dangerGrids == [k \in Indices(dangerIdx) |-> toGrid(ghostPositions[dangerIdx[k]])]
        goal == CtlGoal(map, pacmanGrid, ghostPositions, ghostStates)
        validMoves == getValidMoves(map, pacmanPos)
        st0 == [openSet |-> <<pacmanGrid>>,
                cameFrom |-> << >>,
                gScore |-> Put(<< >>, pacmanGrid, 0),
                fScore |-> Put(<< >>, pacmanGrid, manhattanDistance(pacmanGrid, goal.cell))]
        search == CtlLoop(map, pacmanGrid, goal.cell, hunting, dangerGrids, st0, 0)
        scores == [i \in Indices(validMoves) |->
                      LET newPos == StepCell(pacmanGrid, validMoves[i])
                      IN RSub(RInt(-manhattanDistance(newPos, goal.cell)
                                   - dangerCost(hunting, dangerGrids, newPos)),
                              getOscillationPenalty(pacmanPos, validMoves[i], lastMove))]
    IN IF ~goal.found
       THEN Decision(IF Len(validMoves) > 0 THEN validMoves[1] ELSE NONE, FALSE)
       ELSE IF search.found THEN Decision(search.direction, FALSE)
       ELSE IF Len(validMoves) = 0 THEN Decision(NONE, FALSE)
       ELSE Decision(BestMove(validMoves, scores), TRUE)

\* depth = depth || 4
DepthOr4(depth) == IF depth = 0 THEN 4 ELSE depth

\* The search value of each candidate of the minimax controller.
MinimaxRootValues(pruning, map, pacmanPos, ghostPositions, ghostStates, depth) ==
    LET validMoves == getValidMoves(map, pacmanPos)
    IN [i \in Indices(validMoves) |->
           MinimaxSearch(pruning, map, StepPos(pacmanPos, validMoves[i]), ghostPositions,
                         ghostStates, DepthOr4(depth) - 1, FALSE, NegInf, PosInf).value]

\* The move the minimax controller selects from the candidates' values.
MinimaxChoice(values, map, pacmanPos, lastMove) ==
    LET validMoves == getValidMoves(map, pacmanPos)
        scores == [i \in Indices(validMoves) |->
                      RSub(values[i],
                           getOscillationPenalty(pacmanPos, validMoves[i], lastMove))]
    IN BestMove(validMoves, scores)

minimaxController(map, pacmanPos, ghostPositions, ghostStates, depth, lastMove) ==
    IF Len(getValidMoves(map, pacmanPos)) = 0 THEN Decision(NONE, FALSE)
    ELSE Decision(MinimaxChoice(MinimaxRootValues(TRUE, map, pacmanPos, ghostPositions,
                                                  ghostStates, depth),
                                map, pacmanPos, lastMove),
                  TRUE)

\* With no ghost, the ghosts' ply of expectimax reads ghostPositions[0].x of
\* an empty array and throws; the first candidate whose search reaches that
\* ply ends the controller with the TypeError.
AdaptiveThrows(map, pacmanPos, ghostPositions, depth) ==
    /\ Len(ghostPositions) = 0
    /\ DepthOr4(depth) - 1 # 0
    /\ \E i \in Indices(getValidMoves(map, pacmanPos)) :
           Len(getValidMoves(map, StepPos(pacmanPos, getValidMoves(map, pacmanPos)[i]))) # 0

TypeError == "TypeError"

adaptive(map, pacmanPos, ghostPositions, ghostStates, depth, lastMove) ==
    LET validMoves == getValidMoves(map, pacmanPos)
        Score(i) == RSub(expectimax(map, StepPos(pacmanPos, validMoves[i]), ghostPositions,
                                    ghostStates, DepthOr4(depth) - 1, FALSE).value,
                         getOscillationPenalty(pacmanPos, validMoves[i], lastMove))
    IN IF Len(validMoves) = 0 THEN Decision(NONE, FALSE)
       ELSE IF AdaptiveThrows(map, pacmanPos, ghostPositions, depth)
       THEN Decision(TypeError, FALSE)
       ELSE Decision(BestMove(validMoves,
                              Rounds([i \in Indices(validMoves) |-> Score(i)],
                                     Len(validMoves))), TRUE)

-----------------------------------------------------------------------------
(* Ghost model operations.                                                  *)

\* recordGhostMove(ghostIdx, ghostPos, pacmanPos, move); storageOk tells
\* whether localStorage.setItem succeeds should the call save.
\* Mutant: the save is made without its try/catch, so that a failing write
\* ends the call with the exception.
recordGhostMoveSaveThrows(ghostIdx, ghostPos, pacmanPos, move, storageOk) ==
    IF move = NONE
    THEN UNCHANGED vars
    ELSE LET situation == getSituation(ghostPos, pacmanPos)
             obs1 == [ghostObservations EXCEPT
                         ![ghostIdx] = BumpBucket(@, situation, move)]
             total1 == totalObservations + 1
         IN /\ ghostObservations' = obs1
            /\ totalObservations' = total1
            /\ ghostModelConfidence' = Confidence(total1)
            /\ saved' = IF FlushDue(total1) /\ storageOk THEN Snapshot(obs1, total1) ELSE saved
            /\ ret' = IF FlushDue(total1) /\ ~storageOk THEN TypeError ELSE ret
            /\ UNCHANGED <<trackerVars, scene>>

\* The call throws at ghostObservations[ghostIdx][situation] when the table
\* has no entry for ghostIdx, before anything is changed.
recordGhostMove(ghostIdx, ghostPos, pacmanPos, move, storageOk) ==
    IF move = NONE
    THEN UNCHANGED vars
    ELSE IF TableLookupThrows(ghostIdx)
    THEN ret' = TypeError /\ UNCHANGED <<modelVars, trackerVars, scene>>
    ELSE LET situation == getSituation(ghostPos, pacmanPos)
             obs1 == [ghostObservations EXCEPT
                         ![ghostIdx] = BumpBucket(@, situation, move)]
             total1 == totalObservations + 1
         IN /\ ghostObservations' = obs1
            /\ totalObservations' = total1
            /\ ghostModelConfidence' = Confidence(total1)
            /\ saved' = IF FlushDue(total1)
                        THEN saveGhostModel(obs1, total1, storageOk)
                        ELSE saved
            /\ UNCHANGED <<trackerVars, scene, ret>>

\* Mutant: the table is emptied and totalObservations is left as it was.
resetGhostModelKeepsTotal(storageOk) ==
    /\ ghostObservations' = EmptyTable
    /\ saved' = saveGhostModel(EmptyTable, 0, storageOk)
    /\ UNCHANGED <<totalObservations, ghostModelConfidence, trackerVars, scene, ret>>

resetGhostModel(storageOk) ==
    /\ ghostObservations' = EmptyTable
    /\ totalObservations' = 0
    /\ saved' = saveGhostModel(EmptyTable, 0, storageOk)
    /\ UNCHANGED <<ghostModelConfidence, trackerVars, scene, ret>>

\* What resetStats does to the module's state.
resetStatsBody ==
    /\ ghostModelConfidence' = Confidence(totalObservations)
    /\ moveHistory' = << >>
    /\ positionVisitCount' = << >>
    /\ UNCHANGED <<ghostObservations, totalObservations, saved>>

resetStats == resetStatsBody /\ UNCHANGED <<scene, ret>>

\* fullReset: resetStats() then resetGhostModel().
fullReset(storageOk) ==
    /\ ghostModelConfidence' = Confidence(totalObservations)
    /\ moveHistory' = << >>
    /\ positionVisitCount' = << >>
    /\ ghostObservations' = EmptyTable
    /\ totalObservations' = 0
    /\ saved' = saveGhostModel(EmptyTable, 0, storageOk)
    /\ UNCHANGED <<scene, ret>>

\* getGhostModelStats(): the total and the stored confidence.
getGhostModelStats ==
    [totalObservations |-> totalObservations, confidence |-> ghostModelConfidence]

-----------------------------------------------------------------------------
(* The ghost model under recorded moves and resets.                         *)

\* Most moves recorded in one run of the model.
MaxObs == 2

\* Pixel positions the observed ghost and Pac-Man are drawn from: they give
\* the situations (H,V,near), (R,V,mid) and, through rounding, (R,D,far).
ModelGhostPositions == {Pos(0, 0), Pos(4, 5)}
ModelPacmanPositions == {Pos(60, 0), Pos(34, 95)}

\* Positions a probability query is made for: the above and one whose
\* situation, (L,U,far), is never recorded.
QueryGhostPositions == ModelGhostPositions \cup {Pos(150, 150)}

\* The ghosts whose moves are recorded in a run (queries cover all four).
RecordedGhosts == {0, 3}

ModelSituations ==
    {getSituation(g, p) : g \in ModelGhostPositions, p \in ModelPacmanPositions}

\* A table a previous session saved, and one that lacks ghosts 1..3.
OneMoveTable ==
    [EmptyTable EXCEPT ![1] = BumpBucket(@, <<"H", "V", "near">>, LEFT)]
PartialTable == [i \in {0} |-> BumpBucket(EmptyBuckets, <<"R", "V", "mid">>, UP)]

StoredItems ==
    {NoItem, CorruptItem, Snapshot(OneMoveTable, 1), Snapshot(PartialTable, 1)}

NoScene == [op |-> "none"]

TrackerInit ==
    /\ moveHistory = << >>
    /\ positionVisitCount = << >>

\* The module as constructed: loadGhostModel() on whatever storage holds.
ModelInit ==
    \E item \in StoredItems :
        LET m == loadGhostModel(item) IN
        /\ saved = item
        /\ ghostObservations = m.observations
        /\ totalObservations = m.total
        /\ ghostModelConfidence = m.confidence

InitModel ==
    /\ ModelInit
    /\ TrackerInit
    /\ scene = NoScene
    /\ ret = NONE

\* The storage outcome matters only to a call that saves.
SaveOutcomes(total) == IF FlushDue(total) THEN BOOLEAN ELSE {TRUE}

RecordStep ==
    /\ totalObservations < MaxObs
    /\ \E i \in RecordedGhosts, g \in ModelGhostPositions, p \in ModelPacmanPositions,
          m \in Dirs \cup {NONE}, ok \in SaveOutcomes(totalObservations + 1) :
          recordGhostMove(i, g, p, m, ok)

ResetModelStep == \E ok \in BOOLEAN : resetGhostModel(ok)

ResetStatsStep == resetStats

FullResetStep == \E ok \in BOOLEAN : fullReset(ok)

NextModel == RecordStep \/ ResetModelStep \/ ResetStatsStep \/ FullResetStep

SpecModel == InitModel /\ [][NextModel]_vars

-----------------------------------------------------------------------------
(* Claims on the ghost model.                                               *)

ProbSeq(pr) == <<pr[UP], pr[DOWN], pr[LEFT], pr[RIGHT]>>

\* C2: for every ghost index 0..3 and every situation, whatever moves were
\* recorded before, getGhostMoveProbabilities returns exactly the four values
\* for UP, DOWN, LEFT, RIGHT; they sum to 1, each lies strictly between 0 and
\* 1, and all are 0.25 when the situation bucket was never observed.
C2_ProbabilitiesAreDistribution ==
    \A i \in GhostIdxs, g \in QueryGhostPositions, p \in ModelPacmanPositions :
        LET pr == getGhostMoveProbabilities(i, g, p) IN
        /\ ~TableLookupThrows(i)
        /\ DOMAIN pr = Dirs
        /\ REq(RSumSeq(ProbSeq(pr)), RInt(1))
        /\ \A d \in Dirs : RLess(RInt(0), pr[d]) /\ RLess(pr[d], RInt(1))
        /\ (getSituation(g, p) \notin DOMAIN ghostObservations[i]
               => \A d \in Dirs : REq(pr[d], Rat(1, 4)))

\* C2 witness: a bucket with uneven counts (UP and LEFT once, DOWN and RIGHT
\* never) beside buckets never observed.
C2_Witness ==
    /\ <<"R", "V", "mid">> \in DOMAIN ghostObservations[0]
    /\ ghostObservations[0][<<"R", "V", "mid">>][UP] = 1
    /\ ghostObservations[0][<<"R", "V", "mid">>][LEFT] = 1
    /\ ghostObservations[0][<<"R", "V", "mid">>][DOWN] = 0
    /\ DOMAIN ghostObservations[2] = {}

\* C3: recording direction m for ghost i in a situation strictly raises the
\* probability of m that getGhostMoveProbabilities reports for that ghost and
\* situation, also when the bucket had never been observed.
C3_RecordRaisesProbability ==
    [][\A i \in RecordedGhosts, g \in ModelGhostPositions, p \in ModelPacmanPositions,
          m \in Dirs :
          (\E ok \in BOOLEAN : recordGhostMove(i, g, p, m, ok))
              => RLess(Probabilities(ghostObservations, i, g, p)[m],
                       Probabilities(ghostObservations', i, g, p)[m])]_vars

\* C3 witness: moves were recorded into a fresh bucket and then into the
\* same bucket again.
C3_Witness ==
    /\ totalObservations = MaxObs
    /\ \E i \in GhostIdxs : \E s \in DOMAIN ghostObservations[i] : \E d \in Dirs :
           ghostObservations[i][s][d] = MaxObs

-----------------------------------------------------------------------------
(* The tracker under recorded positions and stats resets.                   *)

\* Most positions recorded since the last reset.
MaxRecords == 5

\* Pixel positions recorded: three cells, one of them also off-centre.
TrackerPositions == {Pos(10, 10), Pos(20, 10), Pos(14, 10), Pos(10, 20)}

RECURSIVE SumCounts(_, _)
SumCounts(counts, keys) ==
    IF keys = {} THEN 0
    ELSE LET k == CHOOSE k \in keys : TRUE
         IN counts[k] + SumCounts(counts, keys \ {k})

TotalVisits == SumCounts(positionVisitCount, DOMAIN positionVisitCount)

FreshModel ==
    /\ saved = NoItem
    /\ ghostObservations = EmptyTable
    /\ totalObservations = 0
    /\ ghostModelConfidence = 0

InitOsc ==
    /\ FreshModel
    /\ TrackerInit
    /\ scene = NoScene
    /\ ret = NONE

RecordPositionStep ==
    /\ TotalVisits < MaxRecords
    /\ \E pos \in TrackerPositions : recordPosition(pos)

NextOsc == RecordPositionStep \/ ResetStatsStep

SpecOsc == InitOsc /\ [][NextOsc]_vars

\* Indices of the history entries equal to `key`.
Matches(key) == {j \in 1 .. Len(moveHistory) : moveHistory[j] = key}

\* C10: with lastMove # NONE, the penalty of the reversing candidate
\* opposite(lastMove) is at least 50 more than the penalty of any
\* non-reversing candidate whose resulting cell has the same history matches
\* and the same visit count.
C10_ReversalCostsFifty ==
    \A pos1 \in TrackerPositions, pos2 \in TrackerPositions, lastMove \in Dirs :
        \A m2 \in Dirs \ {opposites[lastMove]} :
            LET rev == opposites[lastMove]
                k1 == StepCell(toGrid(pos1), rev)
                k2 == StepCell(toGrid(pos2), m2)
            IN (/\ Matches(k1) = Matches(k2)
                /\ VisitCountOf(positionVisitCount, k1)
                     = VisitCountOf(positionVisitCount, k2))
               => ~RLess(getOscillationPenalty(pos1, rev, lastMove),
                         RAdd(getOscillationPenalty(pos2, m2, lastMove), RInt(50)))

\* C10 witness: the reversing candidate (LEFT after RIGHT, from cell (2,1))
\* and a non-reversing one (UP from cell (1,2)) both lead to cell (1,1),
\* which is in the history and was visited three times.
C10_Witness ==
    /\ VisitCountOf(positionVisitCount, [x |-> 1, y |-> 1]) = 3
    /\ Len(moveHistory) = MaxRecords
    /\ moveHistory[1] = [x |-> 1, y |-> 1]
    /\ moveHistory[2] = [x |-> 2, y |-> 1]
    /\ RLess(RInt(200), getOscillationPenalty(Pos(20, 10), LEFT, RIGHT))

-----------------------------------------------------------------------------
(* astar on sample maps.                                                    *)

\* Side of the open square map.
OpenSide == 5

Cells(xs, ys) == {[x |-> cx, y |-> cy] : cx \in xs, cy \in ys}

\* An open floor square, no collectibles.
OpenMap == GridMap(OpenSide, OpenSide, {}, {}, {})

\* A 4 x 4 map with a wall bar and a walled-off corner cell (3,3).
WalledMap ==
    GridMap(4, 4, Cells({1}, 0 .. 2) \cup {[x |-> 3, y |-> 2], [x |-> 2, y |-> 3]},
            {}, {})

\* The tunnel corridor: rows 9 and 10 of a 19-wide map are floor, so that the
\* two ends of row 10 are joined by the tunnel and by the long way round.
TunnelMap == GridMap(MAP_WIDTH, TUNNEL_ROW + 1, Cells(0 .. (MAP_WIDTH - 1), 0 .. 8), {}, {})

\* An open floor of 24 x 22 = 528 cells, more than the expansion limit.
LargeMap == GridMap(24, 22, {}, {}, {})

CellPos(cell) == Pos(10 * cell.x, 10 * cell.y)

\* The calls made: <<map, start, goal>> with pixel positions.
AstarCases ==
    {<<OpenMap, CellPos(a), CellPos(b)>> : a \in MapCells(OpenMap), b \in MapCells(OpenMap)}
    \cup {<<OpenMap, Pos(4, 15), Pos(26, 35)>>}
    \cup {<<WalledMap, CellPos(a), CellPos(b)>> :
             a \in MapCells(WalledMap), b \in MapCells(WalledMap)}
    \cup {<<TunnelMap, CellPos(a), CellPos(b)>> :
             a \in Cells({0, 1, 18}, {9, 10}), b \in Cells({0, 9, 17, 18}, {9, 10})}
    \cup {<<LargeMap, CellPos(a), CellPos(b)>> :
             a \in Cells({0, 12}, {0, 11}), b \in Cells({24, 23}, {0, 22})}

InitAstar ==
    /\ FreshModel
    /\ TrackerInit
    /\ \E c \in AstarCases :
           scene = [op |-> "call", map |-> c[1], start |-> c[2], goal |-> c[3]]
    /\ ret = NONE

AstarCall ==
    /\ scene.op = "call"
    /\ scene' = [scene EXCEPT !.op = "astar"]
    /\ ret' = astar(scene.map, scene.start, scene.goal)
    /\ UNCHANGED <<modelVars, trackerVars>>

NextAstar == AstarCall

SpecAstar == InitAstar /\ [][NextAstar]_vars

-----------------------------------------------------------------------------
(* Shortest paths over floor cells, for the claims on astar.                *)

\* The floor cells one edge from `cell`: 4-neighbours and the tunnel edge
\* between columns 0 and 18 of row 10.
FloorNeighbors(map, cell) ==
    {n \in {AstarNeighbors(cell)[j] : j \in 1 .. Len(AstarNeighbors(cell))} :
        isFloorSpace(map, n)}

\* The number of edges of a shortest path from the frontier to goal, -1 when
\* there is none.
RECURSIVE BfsDistance(_, _, _, _, _)
BfsDistance(map, frontier, seen, goal, d) ==
    IF goal \in frontier THEN d
    ELSE IF frontier = {} THEN -1
    ELSE LET next == (UNION {FloorNeighbors(map, c) : c \in frontier}) \ seen
         IN BfsDistance(map, next, seen \cup next, goal, d + 1)

PathDistance(map, a, b) == BfsDistance(map, {a}, {a}, b, 0)

RECURSIVE Flood(_, _, _)
Flood(map, frontier, seen) ==
    IF frontier = {} THEN seen
    ELSE LET next == (UNION {FloorNeighbors(map, c) : c \in frontier}) \ seen
         IN Flood(map, next, seen \cup next)

ReachableFrom(map, a) == Flood(map, {a}, {a})

\* The cell a step in direction dir leads to, through the tunnel at its mouths.
MoveTarget(cell, dir) ==
    IF cell.y = TUNNEL_ROW /\ cell.x = 0 /\ dir = LEFT
    THEN [x |-> MAP_WIDTH - 1, y |-> TUNNEL_ROW]
    ELSE IF cell.y = TUNNEL_ROW /\ cell.x = MAP_WIDTH - 1 /\ dir = RIGHT
    THEN [x |-> 0, y |-> TUNNEL_ROW]
    ELSE StepCell(cell, dir)

AstarCalled == scene.op = "astar"

\* C1: when the goal cell differs from the start cell and is reachable from
\* it over floor cells, astar returns a direction other than NONE that is the
\* first step of a shortest path to the goal; it returns NONE only when no
\* path exists or the start cell is the goal.
C1_AstarFirstStepOfShortestPath ==
    AstarCalled =>
        LET s == toGrid(scene.start)
            g == toGrid(scene.goal)
            d == PathDistance(scene.map, s, g)
        IN /\ (s # g /\ d >= 0) =>
                  /\ ret.direction # NONE
                  /\ isFloorSpace(scene.map, MoveTarget(s, ret.direction))
                  /\ PathDistance(scene.map, MoveTarget(s, ret.direction), g) = d - 1
           /\ ret.direction = NONE => (d < 0 \/ s = g)

\* C5: on an open rectangular floor with the goal different from the start,
\* the first step astar returns strictly decreases the Manhattan distance to
\* the goal.
C5_OpenFloorStepApproachesGoal ==
    (AstarCalled /\ scene.map = OpenMap /\ toGrid(scene.start) # toGrid(scene.goal)) =>
        /\ ret.direction # NONE
        /\ manhattanDistance(StepCell(toGrid(scene.start), ret.direction), toGrid(scene.goal))
             < manhattanDistance(toGrid(scene.start), toGrid(scene.goal))

\* C6: from the left tunnel mouth (0,10) to the cell just past the right
\* mouth, (17,10), astar returns the tunnel-crossing direction LEFT.
C6_TunnelCrossing ==
    (/\ AstarCalled
     /\ scene.map = TunnelMap
     /\ toGrid(scene.start) = [x |-> 0, y |-> TUNNEL_ROW]
     /\ toGrid(scene.goal) = [x |-> MAP_WIDTH - 2, y |-> TUNNEL_ROW])
    => ret.direction = LEFT

-----------------------------------------------------------------------------
(* SpecCtl: one decision of a Pac-Man controller.  Init draws the call: the *)
(* controller, the map, the positions and states, the depth, the last move  *)
(* and the random draws.  Positions recorded by earlier decisions fill the  *)
(* tracker before the call is made.                                         *)

\* Positions recorded before the call.
MaxWarmup == 2

Dangerous == [isEdible |-> FALSE, isDangerous |-> TRUE]
Edible == [isEdible |-> TRUE, isDangerous |-> FALSE]
Neither == [isEdible |-> FALSE, isDangerous |-> FALSE]

Cell(cx, cy) == [x |-> cx, y |-> cy]

World(map, pacmanPos, ghostPositions, ghostStates) ==
    [map |-> map, pacmanPos |-> pacmanPos,
     ghostPositions |-> ghostPositions, ghostStates |-> ghostStates]

\* A 5 x 5 open floor whose one biscuit lies two cells east of the agent.
PelletMap(agent) == GridMap(5, 5, {}, {Cell(agent.x + 2, agent.y)}, {})

PelletWorlds ==
    {World(PelletMap(a), CellPos(a), << >>, << >>) : a \in Cells(0 .. 2, 0 .. 4)}
    \cup {World(PelletMap(Cell(1, 2)), Pos(13, 16), << >>, << >>)}

\* A 3 x 3 map whose centre cell has a wall on each side.
BoxMap(biscuit, pill) ==
    GridMap(3, 3, {Cell(1, 0), Cell(0, 1), Cell(2, 1), Cell(1, 2)}, biscuit, pill)

GhostConfigs ==
    {<< << >>, << >> >>,
     << <<CellPos(Cell(0, 0))>>, <<Dangerous>> >>,
     << <<CellPos(Cell(2, 2))>>, <<Edible>> >>,
     << <<CellPos(Cell(0, 0)), CellPos(Cell(2, 0))>>, <<Dangerous, Neither>> >>}

BoxedWorlds ==
    {World(BoxMap(b, p), CellPos(Cell(1, 1)), g[1], g[2]) :
        b \in {{}, {Cell(1, 1)}, {Cell(0, 0)}}, p \in {{}, {Cell(2, 2)}}, g \in GhostConfigs}
    \cup {World(GridMap(1, 1, {}, {}, {}), CellPos(Cell(0, 0)), << >>, << >>)}

\* A 4 x 4 arena with two pillars, biscuits and a power pellet.
ArenaMap ==
    GridMap(4, 4, {Cell(1, 1), Cell(2, 2)},
            {Cell(0, 0), Cell(3, 0), Cell(0, 3), Cell(2, 1)}, {Cell(3, 3)})

ArenaGhosts ==
    {<< <<CellPos(Cell(3, 1))>>, <<Dangerous>> >>,
     << <<CellPos(Cell(0, 2))>>, <<Edible>> >>,
     << <<CellPos(Cell(3, 2)), CellPos(Cell(0, 1))>>, <<Dangerous, Dangerous>> >>,
     << <<CellPos(Cell(1, 3)), CellPos(Cell(3, 0))>>, <<Neither, Edible>> >>}

ArenaWorlds ==
    {World(ArenaMap, CellPos(a), g[1], g[2]) :
        a \in {Cell(1, 0), Cell(2, 1), Cell(1, 2)}, g \in ArenaGhosts}

\* A 3 x 3 open floor with nothing left to collect, the agent in the middle.
BareWorlds == {World(GridMap(3, 3, {}, {}, {}), CellPos(Cell(1, 1)), << >>, << >>)}

Worlds == PelletWorlds \cup BoxedWorlds \cup ArenaWorlds \cup BareWorlds

CtlDepths == {0, 1, 3}
CtlLastMoves == {NONE, LEFT, DOWN}

\* Math.random() * 10 per direction.
RandomDraws == {[d \in Dirs |-> 0], [d \in Dirs |-> IF d = RIGHT THEN 9 ELSE 2],
                [d \in Dirs |-> IF d = UP THEN 3 ELSE 1]}
NoDraw == [d \in Dirs |-> 0]

Call(ctl, w, depth, lastMove, draw) ==
    [op |-> "call", ctl |-> ctl, map |-> w.map, pacmanPos |-> w.pacmanPos,
     ghostPositions |-> w.ghostPositions, ghostStates |-> w.ghostStates,
     depth |-> depth, lastMove |-> lastMove, draw |-> draw]

CtlCalls ==
    {Call(c, w, 0, m, NoDraw) : c \in {"greedy", "astar"}, w \in Worlds, m \in CtlLastMoves}
    \cup {Call("random", w, 0, m, r) : w \in Worlds, m \in CtlLastMoves, r \in RandomDraws}
    \cup {Call(c, w, d, m, NoDraw) :
             c \in {"minimax", "adaptive"}, w \in Worlds, d \in CtlDepths, m \in {NONE, LEFT}}

\* What ghost 0 and ghost 1 were seen to do close to Pac-Man.
LearnedTable ==
    [EmptyTable EXCEPT
        ![0] = BumpBucket(BumpBucket(BumpBucket(@, <<"H", "V", "near">>, LEFT),
                                     <<"H", "V", "near">>, LEFT),
                          <<"H", "V", "near">>, DOWN),
        ![1] = BumpBucket(@, <<"H", "V", "near">>, RIGHT)]

InitCtl ==
    /\ TrackerInit
    /\ saved = NoItem
    /\ \E c \in CtlCalls :
           /\ scene = c
           /\ \/ /\ ghostObservations = EmptyTable
                 /\ totalObservations = 0
              \/ /\ c.ctl = "adaptive"
                 /\ ghostObservations = LearnedTable
                 /\ totalObservations = 4
    /\ ghostModelConfidence = Confidence(totalObservations)
    /\ ret = NONE

\* An earlier decision recorded a position next to the agent's.
WarmUpStep ==
    /\ scene.op = "call"
    /\ TotalVisits < MaxWarmup
    /\ \E d \in {UP, RIGHT} : recordPosition(StepPos(scene.pacmanPos, d))

\* The controller returns decision.move, having recorded the position or not.
Decide(decision) ==
    /\ scene.op = "call"
    /\ scene' = [scene EXCEPT !.op = "done"]
    /\ ret' = decision.move
    /\ IF decision.recorded
       THEN /\ moveHistory' = PushHistory(moveHistory, PosKey(scene.pacmanPos))
            /\ positionVisitCount' = CountVisit(positionVisitCount, PosKey(scene.pacmanPos))
       ELSE UNCHANGED trackerVars
    /\ UNCHANGED modelVars

GreedyStep ==
    /\ scene.ctl = "greedy"
    /\ Decide(greedy(scene.map, scene.pacmanPos, scene.lastMove))

RandomStep ==
    /\ scene.ctl = "random"
    /\ Decide(random(scene.map, scene.pacmanPos, scene.lastMove, scene.draw))

AstarStep ==
    /\ scene.ctl = "astar"
    /\ Decide(astarController(scene.map, scene.pacmanPos, scene.ghostPositions,
                              scene.ghostStates, scene.lastMove))

MinimaxStep ==
    /\ scene.ctl = "minimax"
    /\ Decide(minimaxController(scene.map, scene.pacmanPos, scene.ghostPositions,
                                scene.ghostStates, scene.depth, scene.lastMove))

AdaptiveStep ==
    /\ scene.ctl = "adaptive"
    /\ Decide(adaptive(scene.map, scene.pacmanPos, scene.ghostPositions,
                       scene.ghostStates, scene.depth, scene.lastMove))

NextCtl ==
    \/ WarmUpStep
    \/ GreedyStep
    \/ RandomStep
    \/ AstarStep
    \/ MinimaxStep
    \/ AdaptiveStep

SpecCtl == InitCtl /\ [][NextCtl]_vars

XEq(a, b) == ~XLess(a, b) /\ ~XLess(b, a)

Decided(ctl) == scene.op = "done" /\ scene.ctl = ctl

BoxedIn == Len(getValidMoves(scene.map, scene.pacmanPos)) = 0

\* C4: the minimax controller's candidates have the same search value with
\* and without the pruning break, and the controller returns the move the
\* search without the break selects.
C4_PruningKeepsRootValuesAndMove ==
    [][(scene.op = "call" /\ scene'.op = "done" /\ scene.ctl = "minimax" /\ ~BoxedIn) =>
          LET pruned == MinimaxRootValues(TRUE, scene.map, scene.pacmanPos,
                                          scene.ghostPositions, scene.ghostStates, scene.depth)
              plain == MinimaxRootValues(FALSE, scene.map, scene.pacmanPos,
                                         scene.ghostPositions, scene.ghostStates, scene.depth)
          IN /\ \A i \in DOMAIN plain : XEq(pruned[i], plain[i])
             /\ ret' = MinimaxChoice(plain, scene.map, scene.pacmanPos, scene.lastMove)]_vars

\* A minimax decision at depth 4 in the arena with two dangerous ghosts,
\* where a maximizing ply with several candidates lies below the root.
C4_Witness ==
    /\ Decided("minimax")
    /\ scene.depth = 0
    /\ scene.map = ArenaMap
    /\ Len(scene.ghostPositions) = 2
    /\ Len(getValidMoves(scene.map, scene.pacmanPos)) > 1
    /\ ret \in Dirs

\* C7: a controller called for a boxed-in agent returns NONE.
C7_BoxedInReturnsNone ==
    (scene.op = "done" /\ BoxedIn) => ret = NONE

\* Each of the five controllers has decided for a boxed-in agent; shown here
\* for the astar controller with a ghost and a biscuit elsewhere on the map.
C7_Witness ==
    /\ Decided("astar")
    /\ BoxedIn
    /\ Len(scene.ghostPositions) > 0
    /\ scene.map.biscuit = {Cell(0, 0)}
    /\ ret = NONE

\* C9: on the 5 x 5 open floor with the one biscuit two cells east and no
\* ghost, the first decision (nothing recorded, no last move) of the greedy
\* and of the astar controller is RIGHT.
C9_FirstMoveRight ==
    [][(/\ scene.op = "call" /\ scene'.op = "done"
        /\ scene.ctl \in {"greedy", "astar"}
        /\ scene.map = PelletMap(toGrid(scene.pacmanPos))
        /\ Len(scene.ghostPositions) = 0
        /\ scene.lastMove = NONE
        /\ moveHistory = << >>) => ret' = RIGHT]_vars

C9_Witness ==
    /\ Decided("astar")
    /\ scene.map = PelletMap(toGrid(scene.pacmanPos))
    /\ scene.lastMove = NONE
    /\ moveHistory = <<PosKey(scene.pacmanPos)>>
    /\ ret = RIGHT


-----------------------------------------------------------------------------
(* SpecDist: one call of tunnelAwareDistance on a pair of grid cells.       *)

\* Cells on and off the tunnel row, at and between the two tunnel mouths.
DistCells == Cells({0, 1, 5, 9, 13, 17, 18}, {0, 8, 10, 12})

InitDist ==
    /\ FreshModel
    /\ TrackerInit
    /\ \E a \in DistCells, b \in DistCells : scene = [op |-> "call", pos1 |-> a, pos2 |-> b]
    /\ ret = NONE

DistCall ==
    /\ scene.op = "call"
    /\ scene' = [scene EXCEPT !.op = "tunnelAwareDistance"]
    /\ ret' = tunnelAwareDistance(scene.pos1, scene.pos2)
    /\ UNCHANGED <<modelVars, trackerVars>>

NextDist == DistCall

SpecDist == InitDist /\ [][NextDist]_vars

\* C11: tunnelAwareDistance(a, b) is at most manhattanDistance(a, b).
C11_TunnelDistanceAtMostManhattan ==
    scene.op = "tunnelAwareDistance" => ret <= manhattanDistance(scene.pos1, scene.pos2)

\* From one tunnel mouth to the other the tunnel route (1) is the shorter.
C11_Witness ==
    /\ scene.op = "tunnelAwareDistance"
    /\ scene.pos1 = Cell(0, TUNNEL_ROW)
    /\ scene.pos2 = Cell(MAP_WIDTH - 1, TUNNEL_ROW)
    /\ ret = 1
    /\ ret < manhattanDistance(scene.pos1, scene.pos2)

-----------------------------------------------------------------------------
(* SpecEval: one call of evaluateState.  Pac-Man stands at the left end of  *)
(* the middle row of a corridor; the ghosts stand on that row.              *)

EvalPacman == Cell(0, 1)

\* The corridor with nothing to collect, with a biscuit or a power pellet
\* under Pac-Man, and with a biscuit at its far end.
EvalMaps ==
    {GridMap(12, 3, {}, {}, {}),
     GridMap(12, 3, {}, {EvalPacman}, {}),
     GridMap(12, 3, {}, {}, {EvalPacman}),
     GridMap(12, 3, {}, {Cell(11, 1)}, {})}

GhostKinds == {Dangerous, Edible, Neither}

\* No ghost, one ghost at distance 0 .. 10, or two ghosts.
EvalGhosts ==
    {<< << >>, << >> >>}
    \cup {<< <<CellPos(Cell(d, 1))>>, <<k>> >> : d \in 0 .. 10, k \in GhostKinds}
    \cup {<< <<CellPos(Cell(d1, 1)), CellPos(Cell(d2, 1))>>, <<Dangerous, k>> >> :
             d1 \in {1, 2, 3, 5, 9}, d2 \in {1, 2, 3, 5, 9}, k \in GhostKinds}

InitEval ==
    /\ FreshModel
    /\ TrackerInit
    /\ \E m \in EvalMaps, g \in EvalGhosts :
           scene = [op |-> "call", map |-> m, pacmanPos |-> CellPos(EvalPacman),
                    ghostPositions |-> g[1], ghostStates |-> g[2]]
    /\ ret = NONE

EvalCall ==
    /\ scene.op = "call"
    /\ scene' = [scene EXCEPT !.op = "evaluateState"]
    /\ ret' = evaluateState(scene.map, scene.pacmanPos, scene.ghostPositions,
                            scene.ghostStates)
    /\ UNCHANGED <<modelVars, trackerVars>>

NextEval == EvalCall

SpecEval == InitEval /\ [][NextEval]_vars

Evaluated == scene.op = "evaluateState"

GhostDistance(i) ==
    manhattanDistance(toGrid(scene.pacmanPos), toGrid(scene.ghostPositions[i]))

NothingToCollect == scene.map.biscuit = {} /\ scene.map.pill = {}

\* The penalty stated for a dangerous ghost at distance d.
StatedThreat(d) ==
    IF d < 2 THEN RInt(-2000)
    ELSE IF d < 4 THEN Rat(-500, d)
    ELSE IF d < 8 THEN Rat(-50, d)
    ELSE RInt(0)

\* C12: with dangerous ghosts only and nothing to collect, the score is the
\* sum over the ghosts of -2000 (d < 2), -500/d (2 <= d < 4), -50/d
\* (4 <= d < 8), 0 (d >= 8); and one dangerous ghost at distance 1 gives
\* -2000 plus only what the cell under Pac-Man adds (50 for a biscuit, 500
\* for a power pellet with the danger near).
C12_DangerBands ==
    (Evaluated /\ \A i \in Indices(scene.ghostStates) : scene.ghostStates[i] = Dangerous) =>
        /\ NothingToCollect =>
               REq(ret, SumTerms([i \in Indices(scene.ghostStates) |->
                                     StatedThreat(GhostDistance(i))],
                                 Indices(scene.ghostStates)))
        /\ (Len(scene.ghostStates) = 1 /\ GhostDistance(1) = 1) =>
               REq(ret, RInt(-2000
                             + (IF EvalPacman \in scene.map.biscuit THEN 50 ELSE 0)
                             + (IF EvalPacman \in scene.map.pill THEN 500 ELSE 0)))

\* Two dangerous ghosts, at distances 3 and 5: -500/3 - 50/5.
C12_Witness ==
    /\ Evaluated
    /\ NothingToCollect
    /\ scene.ghostStates = <<Dangerous, Dangerous>>
    /\ GhostDistance(1) = 3
    /\ GhostDistance(2) = 5
    /\ REq(ret, Rat(-530, 3))

\* C13: ghosts that are neither edible nor dangerous add no threat penalty:
\* with such ghosts only and nothing to collect the score is 0.
C13_NeitherIsNotDangerous ==
    (/\ Evaluated
     /\ NothingToCollect
     /\ \A i \in Indices(scene.ghostStates) : scene.ghostStates[i] = Neither)
    => REq(ret, RInt(0))


-----------------------------------------------------------------------------
(* Claims on the stored confidence and on the load, under SpecModel.        *)

\* C15: the confidence getGhostModelStats reports is
\* min(100, round(totalObservations / 2)) of the total it reports.
C15_ConfidenceMatchesTotal ==
    getGhostModelStats.confidence = Min2(100, RoundHalf(getGhostModelStats.totalObservations))

\* C17: a load leaves the empty table (ghosts 0..3, total 0) when nothing
\* readable is stored, and otherwise the stored buckets with every missing
\* ghost 0..3 given an empty bucket map; the table has an entry for each
\* ghost 0..3 in every state.
C17_LoadLeavesUsableTable ==
    /\ GhostIdxs \subseteq DOMAIN ghostObservations
    /\ \A item \in StoredItems :
           LET m == loadGhostModel(item) IN
           /\ GhostIdxs \subseteq DOMAIN m.observations
           /\ item.kind # "data" =>
                  /\ m.observations = [i \in GhostIdxs |-> << >>]
                  /\ m.total = 0
           /\ item.kind = "data" =>
                  /\ m.total = item.total
                  /\ \A i \in GhostIdxs :
                         m.observations[i] = IF i \in DOMAIN item.observations
                                             THEN item.observations[i] ELSE << >>

\* The module loaded from a snapshot that holds ghost 0 only.
C17_Witness ==
    /\ saved = Snapshot(PartialTable, 1)
    /\ totalObservations = 1
    /\ ghostObservations[0] = PartialTable[0]
    /\ \A i \in {1, 2, 3} : ghostObservations[i] = << >>

-----------------------------------------------------------------------------
(* SpecPersist: the ghost model from a fresh start through its tenth        *)
(* observation, where recordGhostMove saves, with storage working or not.   *)

\* Most observations in the table; the save comes with the tenth.
MaxSaveObs == 11

PersistGhostPos == Pos(0, 0)
PersistPacmanPos == Pos(60, 0)
PersistSituation == getSituation(PersistGhostPos, PersistPacmanPos)

\* Ghost 0, and an index the table has no entry for.
PersistGhosts == {0, GhostCount}
PersistMoves == {UP, LEFT, NONE}

InitPersist ==
    /\ FreshModel
    /\ TrackerInit
    /\ scene = NoScene
    /\ ret = NONE

PersistRecordStep ==
    /\ totalObservations < MaxSaveObs
    /\ \E i \in PersistGhosts, m \in PersistMoves, ok \in SaveOutcomes(totalObservations + 1) :
          recordGhostMove(i, PersistGhostPos, PersistPacmanPos, m, ok)

PersistResetStep == \E ok \in BOOLEAN : resetGhostModel(ok)

NextPersist == PersistRecordStep \/ PersistResetStep

SpecPersist == InitPersist /\ [][NextPersist]_vars

\* The count of (ghost, situation, move) in a table, 0 without a bucket.
CountOf(table, i, situation, move) ==
    IF i \in DOMAIN table /\ situation \in DOMAIN table[i] THEN table[i][situation][move] ELSE 0

AllSituations ==
    {<<h, v, c>> : h \in {"R", "L", "H"}, v \in {"D", "U", "V"}, c \in {"near", "mid", "far"}}

\* This step counted one more move m for ghost i in PersistSituation and
\* nothing else.
CountedExactly(i, m) ==
    /\ totalObservations' = totalObservations + 1
    /\ \A j \in GhostIdxs, st \in AllSituations, d \in Dirs :
           CountOf(ghostObservations', j, st, d) =
               CountOf(ghostObservations, j, st, d)
                 + (IF j = i /\ st = PersistSituation /\ d = m THEN 1 ELSE 0)

\* C14: recordGhostMove with a direction raises the count of (idx, situation,
\* move) and totalObservations by 1 and leaves every other count as it was;
\* with NONE it changes nothing, so that every step that changes the model
\* and is no reset counts exactly one direction.
C14_RecordCountsExactlyOne ==
    [][/\ \A i \in GhostIdxs, m \in Dirs, ok \in BOOLEAN :
              recordGhostMove(i, PersistGhostPos, PersistPacmanPos, m, ok)
                  => CountedExactly(i, m)
       /\ (modelVars' # modelVars /\ totalObservations' # 0)
              => \E i \in GhostIdxs, m \in Dirs : CountedExactly(i, m)]_vars

\* UP was recorded twice and LEFT once for ghost 0, NONE changing nothing.
C14_Witness ==
    /\ totalObservations = 3
    /\ CountOf(ghostObservations, 0, PersistSituation, UP) = 2
    /\ CountOf(ghostObservations, 0, PersistSituation, LEFT) = 1
    /\ CountOf(ghostObservations, 0, PersistSituation, DOWN) = 0
    /\ DOMAIN ghostObservations[1] = {}

\* C16: for a ghost index or situation never seen, the index without a table
\* entry included, getGhostMoveProbabilities gives the uniform distribution
\* and recordGhostMove creates the bucket; neither fails.
C16_NeverSeenIsUniform ==
    /\ ret # TypeError
    /\ \A i \in PersistGhosts :
           /\ ~TableLookupThrows(i)
           /\ PersistSituation \notin DOMAIN ghostObservations[i]
                  => \A d \in Dirs :
                         REq(getGhostMoveProbabilities(i, PersistGhostPos,
                                                       PersistPacmanPos)[d], Rat(1, 4))

\* C18: when the write fails in the save that recordGhostMove makes with
\* the tenth observation, or in the save of resetGhostModel, the call ends
\* normally with the counts and the total a working storage would leave, and
\* with the stored item as it was.
C18_FailedSaveKeepsLearning ==
    [][/\ \A m \in Dirs :
              (/\ FlushDue(totalObservations + 1)
               /\ recordGhostMove(0, PersistGhostPos, PersistPacmanPos, m, FALSE))
              => /\ ret' = ret
                 /\ saved' = saved
                 /\ totalObservations' = totalObservations + 1
                 /\ ghostObservations' =
                        [ghostObservations EXCEPT
                            ![0] = BumpBucket(@, PersistSituation, m)]
       /\ resetGhostModel(FALSE)
              => /\ ret' = ret
                 /\ saved' = saved
                 /\ totalObservations' = 0
                 /\ ghostObservations' = [i \in GhostIdxs |-> << >>]]_vars

\* Ten observations are in memory and nothing is stored: the save failed.
C18_Witness ==
    /\ totalObservations = 10
    /\ saved = NoItem
    /\ ret = NONE
    /\ CountOf(ghostObservations, 0, PersistSituation, UP)
         + CountOf(ghostObservations, 0, PersistSituation, LEFT) = 10


-----------------------------------------------------------------------------
(* SpecFifo: recordPosition along a walk that never returns to a cell, past *)
(* the capacity of moveHistory.                                             *)

\* Most calls of recordPosition in a walk.
MaxWalk == 19

\* The first calls of a walk that may take either row.
WalkChoices == 6

\* Calls of recordPosition so far.
Recorded == SumCounts(positionVisitCount, DOMAIN positionVisitCount)

\* Where the n-th call may be: column n, a few pixels off the cell's centre.
WalkPositions(n) ==
    {Pos(10 * n + 3, y) : y \in (IF n <= WalkChoices THEN {1, 12} ELSE {1})}

InitFifo ==
    /\ FreshModel
    /\ TrackerInit
    /\ scene = NoScene
    /\ ret = NONE

FifoRecordStep ==
    /\ Recorded < MaxWalk
    /\ \E pos \in WalkPositions(Recorded + 1) : recordPosition(pos)

NextFifo == FifoRecordStep

SpecFifo == InitFifo /\ [][NextFifo]_vars

\* The key the n-th call recorded: the counted key of column n.
KeyOfCall(n) == CHOOSE k \in DOMAIN positionVisitCount : k.x = n

\* C19: after n calls of recordPosition moveHistory has min(n, 16) entries,
\* never more than 16, and they are the keys of the latest min(n, 16) calls
\* in the order of the calls, the oldest first.
C19_HistoryIsFifo ==
    LET n == Recorded
        len == Len(moveHistory)
    IN /\ len <= 16
       /\ len = Min2(n, 16)
       /\ \A j \in 1 .. len : moveHistory[j] = KeyOfCall(n - len + j)

\* Nineteen calls were made: the keys of calls 1..3 are gone, the oldest
\* entry is call 4's and the newest call 19's.
C19_Witness ==
    /\ Recorded = 19
    /\ Len(moveHistory) = HISTORY_LENGTH
    /\ moveHistory[1].x = 4
    /\ moveHistory[HISTORY_LENGTH].x = 19


-----------------------------------------------------------------------------
(* SpecGame: the game's events around the module: new game, the benchmark   *)
(* (start, cancel, its timer callback, the recording of runs), level        *)
(* completion, collisions and the loss of a life in mainLoop, the AI        *)
(* selector and the reset-learning button, with decisions and ghost         *)
(* observations in between.                                                 *)

\* Levels played, benchmark runs per algorithm (benchmarkRunsPerAlgo),
\* algorithms of a benchmark (benchmarkAlgos.length), and positions recorded
\* per session.
MaxLevel == 2
MaxRuns == 2
MaxAlgos == 2
MaxGameRecords == 2

\* Lives of a new game (user.reset).
StartLives == 3

GamePositions == {Pos(10, 10), Pos(20, 10)}

AlgoIndices == 0 .. MaxAlgos - 1

\* benchmarkResults = {} with an empty runs list per algorithm; the model
\* keeps the length of each list.
NoRuns == [a \in AlgoIndices |-> 0]

\* `started` counts the calls of startBenchmarkRun that got past its guard
\* since the last startBenchmark. The countdown that startLevel begins is
\* folded into PLAYING.
Playing == scene.state = "PLAYING"

InitGame ==
    /\ FreshModel
    /\ TrackerInit
    /\ scene = [op |-> "game", benchmarkMode |-> FALSE, benchmarkCancelled |-> FALSE,
                benchmarkCurrentAlgo |-> 0, benchmarkCurrentRun |-> 0, runs |-> NoRuns,
                started |-> 0, level |-> 0, lives |-> StartLives, state |-> "WAITING"]
    /\ ret = NONE

\* A handler's result: the game state it leaves, and whether it called
\* PacmanAI.resetStats().
Outcome(sc, reset) == [scene |-> sc, reset |-> reset]

Commit(out) ==
    /\ scene' = out.scene
    /\ IF out.reset THEN resetStatsBody ELSE UNCHANGED <<modelVars, trackerVars>>
    /\ UNCHANGED ret

\* startNewGame: setState(WAITING); level = 1; user.reset(); ...;
\* PacmanAI.resetStats(); startLevel().
startNewGame ==
    Commit(Outcome([scene EXCEPT !.level = 1, !.lives = StartLives, !.state = "PLAYING"], TRUE))

\* startBenchmarkRun: nothing when cancelled; else level = 1, user.reset(),
\* PacmanAI.resetStats(), setState(PLAYING) and a new benchmarkTimer.
startBenchmarkRun(sc) ==
    IF sc.benchmarkCancelled
    THEN Outcome(sc, FALSE)
    ELSE Outcome([sc EXCEPT !.level = 1, !.lives = StartLives, !.state = "PLAYING",
                            !.started = @ + 1], TRUE)

\* finishBenchmark: benchmarkMode = false, the timer cleared.
finishBenchmark(sc) == Outcome([sc EXCEPT !.benchmarkMode = FALSE], FALSE)

\* Mutant: the algorithm changes one run late.
recordBenchmarkRunOneMore(sc) ==
    IF sc.benchmarkCancelled
    THEN Outcome(sc, FALSE)
    ELSE LET pushed == [sc EXCEPT !.runs[sc.benchmarkCurrentAlgo] = @ + 1,
                                  !.benchmarkCurrentRun = @ + 1]
             moved == IF pushed.benchmarkCurrentRun > MaxRuns
                      THEN [pushed EXCEPT !.benchmarkCurrentRun = 0,
                                          !.benchmarkCurrentAlgo = @ + 1]
                      ELSE pushed
         IN IF moved.benchmarkCurrentAlgo >= MaxAlgos
            THEN finishBenchmark(moved)
            ELSE startBenchmarkRun(moved)

\* recordBenchmarkRun: nothing when cancelled; else the run is pushed to the
\* current algorithm's list and benchmarkCurrentRun grows; at
\* benchmarkRunsPerAlgo the next algorithm begins, and after the last one
\* finishBenchmark ends the benchmark; otherwise the next run starts.
recordBenchmarkRun(sc) ==
    IF sc.benchmarkCancelled
    THEN Outcome(sc, FALSE)
    ELSE LET pushed == [sc EXCEPT !.runs[sc.benchmarkCurrentAlgo] = @ + 1,
                                  !.benchmarkCurrentRun = @ + 1]
             moved == IF pushed.benchmarkCurrentRun >= MaxRuns
                      THEN [pushed EXCEPT !.benchmarkCurrentRun = 0,
                                          !.benchmarkCurrentAlgo = @ + 1]
                      ELSE pushed
         IN IF moved.benchmarkCurrentAlgo >= MaxAlgos
            THEN finishBenchmark(moved)
            ELSE startBenchmarkRun(moved)

\* The benchmark button outside a benchmark: startBenchmark sets
\* benchmarkMode, clears benchmarkCancelled, zeroes the indices and the
\* results and starts the first run.
startBenchmark ==
    /\ ~scene.benchmarkMode
    /\ Commit(startBenchmarkRun([scene EXCEPT !.benchmarkMode = TRUE,
                                              !.benchmarkCancelled = FALSE,
                                              !.benchmarkCurrentAlgo = 0,
                                              !.benchmarkCurrentRun = 0,
                                              !.runs = NoRuns,
                                              !.started = 0]))

\* The benchmark button during a benchmark: cancelBenchmark.
cancelBenchmark ==
    /\ scene.benchmarkMode
    /\ Commit(Outcome([scene EXCEPT !.benchmarkCancelled = TRUE,
                                    !.benchmarkMode = FALSE,
                                    !.state = "WAITING"], FALSE))

\* benchmarkLoop, the benchmarkTimer callback, fired at any time: it returns
\* at once when cancelled or outside a benchmark, runs no frame unless the
\* state is PLAYING, and on a collision with a dangerous ghost records the
\* run. Frames without such a collision change nothing that is kept here.
benchmarkLoop ==
    IF scene.benchmarkCancelled \/ ~scene.benchmarkMode \/ scene.state # "PLAYING"
    THEN UNCHANGED vars
    ELSE Commit(recordBenchmarkRun(scene))

\* mainLoop while PLAYING: mainDraw finds a dangerous ghost on Pac-Man.
MainLoopCollisionStep ==
    /\ Playing
    /\ Commit(Outcome([scene EXCEPT !.state = "DYING"], FALSE))

\* loseLife, which mainLoop calls when the dying animation is over: in a
\* benchmark the run ends; otherwise a life goes and the level restarts
\* while lives remain.
loseLife ==
    /\ scene.state = "DYING"
    /\ LET waiting == [scene EXCEPT !.state = "WAITING"]
       IN IF waiting.benchmarkMode
          THEN Commit(recordBenchmarkRun(waiting))
          ELSE LET lost == [waiting EXCEPT !.lives = @ - 1]
               IN Commit(Outcome(IF lost.lives > 0
                                 THEN [lost EXCEPT !.state = "PLAYING"]
                                 ELSE lost, FALSE))

\* Mutant: the tracker is reset at each level.
completedLevelResets ==
    /\ Playing
    /\ scene.level < MaxLevel
    /\ resetStatsBody
    /\ scene' = [scene EXCEPT !.level = @ + 1]
    /\ UNCHANGED ret

\* completedLevel: level += 1; map.reset(); user.newLevel(); startLevel().
completedLevel ==
    /\ Playing
    /\ scene.level < MaxLevel
    /\ scene' = [scene EXCEPT !.level = @ + 1]
    /\ UNCHANGED <<modelVars, trackerVars, ret>>

\* The AI selector's change handler.
PacmanAiChangeStep == resetStats

\* The reset-learning button.
ResetLearningStep == \E ok \in BOOLEAN : resetGhostModel(ok)

\* A decision of a controller records Pac-Man's position.
GameDecisionStep ==
    /\ Playing
    /\ Len(moveHistory) < MaxGameRecords
    /\ \E pos \in GamePositions : recordPosition(pos)

\* makeAIDecisions reports a ghost's move.
GameObserveStep ==
    /\ Playing
    /\ totalObservations < MaxObs
    /\ recordGhostMove(0, PersistGhostPos, PersistPacmanPos, UP, TRUE)

NextGame ==
    \/ startNewGame
    \/ startBenchmark
    \/ cancelBenchmark
    \/ benchmarkLoop
    \/ MainLoopCollisionStep
    \/ loseLife
    \/ completedLevel
    \/ PacmanAiChangeStep
    \/ ResetLearningStep
    \/ GameDecisionStep
    \/ GameObserveStep

SpecGame == InitGame /\ [][NextGame]_vars

TrackerEmptied == moveHistory' = << >> /\ positionVisitCount' = << >>

\* C20: resetStats, which startNewGame and every start of a benchmark run
\* call, empties moveHistory and positionVisitCount and leaves the
\* observation table and totalObservations as they are; completedLevel and
\* the loss of a life in a game leave moveHistory and positionVisitCount as
\* they are; the observation table loses counts in resetGhostModel only.
C20_TrackerResetPerGame ==
    [][/\ (startNewGame \/ startBenchmark \/ resetStats
             \/ (loseLife /\ scene.benchmarkMode /\ scene'.benchmarkMode))
          => /\ TrackerEmptied
             /\ UNCHANGED <<ghostObservations, totalObservations>>
       /\ (completedLevel \/ (loseLife /\ ~scene.benchmarkMode))
          => UNCHANGED <<moveHistory, positionVisitCount>>
       /\ totalObservations' < totalObservations
          => resetGhostModel(TRUE) \/ resetGhostModel(FALSE)]_vars

\* In a game the second level was reached and a life lost, with the
\* positions recorded before still in the history and the visit counts.
C20_Witness ==
    /\ ~scene.benchmarkMode
    /\ scene.level = 2
    /\ scene.lives = StartLives - 1
    /\ Len(moveHistory) = MaxGameRecords
    /\ DOMAIN positionVisitCount # {}
    /\ totalObservations = MaxObs


-----------------------------------------------------------------------------
(* Claims on the controllers' use of the tracker, under SpecCtl.            *)

\* The candidate the comparison of base score minus getOscillationPenalty
\* selects, base[i] being the score of validMoves[i] before the penalty.
PenalisedChoice(map, pacmanPos, lastMove, base) ==
    LET validMoves == getValidMoves(map, pacmanPos)
    IN BestMove(validMoves,
                [i \in Indices(validMoves) |->
                    RSub(base[i], getOscillationPenalty(pacmanPos, validMoves[i], lastMove))])

\* greedy's score of each candidate before the penalty: minus the distance
\* to the nearest pellet, nothing when no pellet is left.
GreedyBase(map, pacmanPos) ==
    LET validMoves == getValidMoves(map, pacmanPos)
        nearest == findNearestPellet(map, toGrid(pacmanPos))
    IN [i \in Indices(validMoves) |->
           IF nearest.found
           THEN RInt(-manhattanDistance(StepCell(toGrid(pacmanPos), validMoves[i]),
                                        nearest.cell))
           ELSE RInt(0)]

\* The astar controller's score of each candidate before the penalty: minus
\* the distance to the goal and the danger cost, nothing without a goal.
AstarBase(map, pacmanPos, ghostPositions, ghostStates) ==
    LET pacmanGrid == toGrid(pacmanPos)
        validMoves == getValidMoves(map, pacmanPos)
        hunting == \E i \in Indices(ghostPositions) : ghostStates[i].isEdible
        dangerIdx == SelectSeq([i \in Indices(ghostPositions) |-> i],
                               LAMBDA i : ~ghostStates[i].isEdible /\ ghostStates[i].isDangerous)
        dangerGrids == [k \in Indices(dangerIdx) |-> toGrid(ghostPositions[dangerIdx[k]])]
        goal == CtlGoal(map, pacmanGrid, ghostPositions, ghostStates)
    IN [i \in Indices(validMoves) |->
           IF goal.found
           THEN RInt(-manhattanDistance(StepCell(pacmanGrid, validMoves[i]), goal.cell)
                     - dangerCost(hunting, dangerGrids, StepCell(pacmanGrid, validMoves[i])))
           ELSE RInt(0)]

\* C21: in every decision with a valid move the controller returns the
\* candidate that is best by its score minus getOscillationPenalty; stated
\* here for greedy and for the astar controller.
C21_DecisionsSubtractPenalty ==
    [][(scene.op = "call" /\ scene'.op = "done" /\ ~BoxedIn) =>
          /\ scene.ctl = "greedy" =>
                 ret' = PenalisedChoice(scene.map, scene.pacmanPos, scene.lastMove,
                                        GreedyBase(scene.map, scene.pacmanPos))
          /\ scene.ctl = "astar" =>
                 ret' = PenalisedChoice(scene.map, scene.pacmanPos, scene.lastMove,
                                        AstarBase(scene.map, scene.pacmanPos,
                                                  scene.ghostPositions, scene.ghostStates))]_vars


-----------------------------------------------------------------------------
(* SpecGhostStep: the step one ghost takes in the ghosts' turn of minimax.  *)

\* A 5 x 5 floor with two wall cells.
StepMap == GridMap(5, 5, {Cell(2, 1), Cell(1, 3)}, {}, {})

StepCells == {c \in Cells(0 .. 4, 0 .. 4) : isFloorSpace(StepMap, c)}

InitGhostStep ==
    /\ FreshModel
    /\ TrackerInit
    /\ ret = NONE
    /\ \E p \in StepCells, g \in StepCells, st \in {Dangerous, Edible} :
           scene = [op |-> "call", map |-> StepMap, pacmanPos |-> CellPos(p),
                    gPos |-> CellPos(g), gState |-> st]

GhostStepCall ==
    /\ scene.op = "call"
    /\ scene' = [scene EXCEPT !.op = "done"]
    /\ ret' = MinimaxGhostStep(scene.map, scene.pacmanPos, scene.gPos, scene.gState)
    /\ UNCHANGED <<modelVars, trackerVars>>

NextGhostStep == GhostStepCall

SpecGhostStep == InitGhostStep /\ [][NextGhostStep]_vars

\* The sign of n.
Sign(n) == IF n > 0 THEN 1 ELSE IF n < 0 THEN -1 ELSE 0

\* C22: the ghost moves one cell along the axis on which it is farther from
\* the agent, toward the agent if dangerous and away if edible, and stays
\* where it is when that cell is not floor; it never moves along the axis of
\* the smaller distance.
C22_GhostStepsOnPreferredAxisOnly ==
    scene.op = "done" =>
        LET g == toGrid(scene.gPos)
            p == toGrid(scene.pacmanPos)
            dx == p.x - g.x
            dy == p.y - g.y
            m == IF scene.gState.isEdible THEN -1 ELSE 1
            xCell == Cell(g.x + m * Sign(dx), g.y)
            yCell == Cell(g.x, g.y + m * Sign(dy))
        IN /\ Abs(dx) > Abs(dy) =>
                 ret = IF isFloorSpace(scene.map, xCell) THEN CellPos(xCell) ELSE scene.gPos
           /\ Abs(dy) > Abs(dx) =>
                 ret = IF isFloorSpace(scene.map, yCell) THEN CellPos(yCell) ELSE scene.gPos


-----------------------------------------------------------------------------
(* Claim on the recency weighting of the history penalty, under SpecOsc.    *)

\* C23: of two cells that each occur once in moveHistory and were visited at
\* most twice, the one recorded more recently costs a candidate strictly
\* more than the one recorded earlier.
C23_RecentEntryCostsMore ==
    \A pos \in TrackerPositions, m1 \in Dirs, m2 \in Dirs :
        LET k1 == StepCell(toGrid(pos), m1)
            k2 == StepCell(toGrid(pos), m2)
        IN (/\ Cardinality(Matches(k1)) = 1
            /\ Cardinality(Matches(k2)) = 1
            /\ \A j1 \in Matches(k1), j2 \in Matches(k2) : j1 < j2
            /\ VisitCountOf(positionVisitCount, k1) <= 2
            /\ VisitCountOf(positionVisitCount, k2) <= 2)
           => RLess(PenaltyIn(moveHistory, positionVisitCount, pos, m1, NONE),
                    PenaltyIn(moveHistory, positionVisitCount, pos, m2, NONE))


-----------------------------------------------------------------------------
(* SpecExp: one call of expectimax at the ghosts' ply, in the arena, with   *)
(* the observation table empty, lightly filled, or filled so that some      *)
(* directions of ghost 0 fall below the threshold.                          *)

ExpDepths == {1, 2, 3}

\* Ghost 0 seen 90 times going LEFT and 10 times DOWN in every situation.
HeavyBucket == [d \in Dirs |-> IF d = LEFT THEN 90 ELSE IF d = DOWN THEN 10 ELSE 0]
HeavyTable ==
    [EmptyTable EXCEPT
        ![0] = [st \in AllSituations |-> HeavyBucket]]
HeavyTotal == 100 * Cardinality(AllSituations)

ExpTables == {<<EmptyTable, 0>>, <<LearnedTable, 4>>, <<HeavyTable, HeavyTotal>>}

InitExp ==
    /\ TrackerInit
    /\ saved = NoItem
    /\ ret = NONE
    /\ \E t \in ExpTables :
           /\ ghostObservations = t[1]
           /\ totalObservations = t[2]
    /\ ghostModelConfidence = Confidence(totalObservations)
    /\ \E w \in ArenaWorlds, depth \in ExpDepths :
           scene = [op |-> "call", map |-> w.map, pacmanPos |-> w.pacmanPos,
                    ghostPositions |-> w.ghostPositions, ghostStates |-> w.ghostStates,
                    depth |-> depth]

\* expectimax(map, pacmanPos, ghostPositions, ghostStates, depth, false, nodesRef)
ExpCall ==
    /\ scene.op = "call"
    /\ scene' = [scene EXCEPT !.op = "done"]
    /\ ret' = expectimax(scene.map, scene.pacmanPos, scene.ghostPositions,
                         scene.ghostStates, scene.depth, FALSE).value
    /\ UNCHANGED <<modelVars, trackerVars>>

NextExp == ExpCall

SpecExp == InitExp /\ [][NextExp]_vars

\* Ghost 0 after direction dir: one cell on if that cell is floor.
Ghost0After(dir) ==
    LET target == StepPos(scene.ghostPositions[1], dir)
    IN IF isFloorSpace(scene.map, toGrid(target)) THEN target ELSE scene.ghostPositions[1]

\* What direction dir of ghost 0 adds to the expected value: nothing below
\* probability 1/100, else the probability times the value of the agent's
\* ply that follows.
StatedBranch(dir) ==
    LET prob == getGhostMoveProbabilities(0, scene.ghostPositions[1], scene.pacmanPos)[dir]
        after == [i \in Indices(scene.ghostPositions) |->
                     IF i = 1 THEN Ghost0After(dir)
                     ELSE ExpectimaxGhostStep(scene.map, scene.pacmanPos,
                                              scene.ghostPositions[i], i - 1, dir)]
    IN IF RLess(prob, Rat(1, 100)) THEN RInt(0)
       ELSE RMul(prob, expectimax(scene.map, scene.pacmanPos, after, scene.ghostStates,
                                  scene.depth - 1, TRUE).value)

\* C24: at the ghosts' ply expectimax returns the sum, over the directions
\* of ghost 0 with probability at least 1/100, of the probability times the
\* value of the recursive call, the probabilities taken as learned.
C24_ExpectedValueOverLikelyDirections ==
    (scene.op = "done" /\ Len(getValidMoves(scene.map, scene.pacmanPos)) > 0)
    => REq(ret, RSumSeq(<<StatedBranch(UP), StatedBranch(DOWN),
                          StatedBranch(LEFT), StatedBranch(RIGHT)>>))

\* A call with two ghosts where UP and RIGHT of ghost 0 were skipped and the
\* probabilities kept add up to 102/104.
C24_Witness ==
    /\ scene.op = "done"
    /\ scene.depth = 3
    /\ Len(scene.ghostPositions) = 2
    /\ ghostObservations = HeavyTable
    /\ SkipBranch(getGhostMoveProbabilities(0, scene.ghostPositions[1], scene.pacmanPos)[UP])
    /\ ~SkipBranch(getGhostMoveProbabilities(0, scene.ghostPositions[1], scene.pacmanPos)[DOWN])
    /\ ~REq(ret, RInt(0))


-----------------------------------------------------------------------------
(* SpecHeur: tunnelAwareDistance between two floor cells of a map with the  *)
(* tunnel, against the paths astar's neighbour expansion allows.            *)

\* Rows 9 to 11 of a 19-wide map with walls among them, rows 0 to 8 walled.
TunnelMaze ==
    GridMap(MAP_WIDTH, TUNNEL_ROW + 2,
            Cells(0 .. (MAP_WIDTH - 1), 0 .. 8)
              \cup {Cell(4, 10), Cell(9, 9), Cell(9, 10), Cell(14, 11), Cell(1, 11), Cell(17, 9)},
            {}, {})

HeurMaps == {TunnelMap, TunnelMaze}

FloorCells(map) == {c \in MapCells(map) : isFloorSpace(map, c)}

InitHeur ==
    /\ FreshModel
    /\ TrackerInit
    /\ ret = NONE
    /\ \E map \in HeurMaps :
           \E a \in FloorCells(map), b \in FloorCells(map) :
               scene = [op |-> "call", map |-> map, pos1 |-> a, pos2 |-> b]

HeurCall ==
    /\ scene.op = "call"
    /\ scene' = [scene EXCEPT !.op = "done"]
    /\ ret' = tunnelAwareDistance(scene.pos1, scene.pos2)
    /\ UNCHANGED <<modelVars, trackerVars>>

NextHeur == HeurCall

SpecHeur == InitHeur /\ [][NextHeur]_vars

\* C25: between floor cells the heuristic is at most the length of the
\* shortest path over floor cells, the tunnel edge included, and it differs
\* by at most 1 between the two ends of any edge.
C25_HeuristicAdmissibleAndConsistent ==
    scene.op = "done" =>
        /\ PathDistance(scene.map, scene.pos1, scene.pos2) >= 0
               => ret <= PathDistance(scene.map, scene.pos1, scene.pos2)
        /\ \A n \in FloorNeighbors(scene.map, scene.pos1) :
               Abs(ret - tunnelAwareDistance(n, scene.pos2)) <= 1

\* From the left mouth to a cell beside the right mouth around a wall: the
\* heuristic counts the crossing, and the path is as short.
C25_Witness ==
    /\ scene.op = "done"
    /\ scene.map = TunnelMaze
    /\ scene.pos1 = Cell(0, TUNNEL_ROW)
    /\ scene.pos2 = Cell(MAP_WIDTH - 2, TUNNEL_ROW + 1)
    /\ ret = 3
    /\ PathDistance(scene.map, scene.pos1, scene.pos2) = 3


-----------------------------------------------------------------------------
(* SpecFlush: the ghost model from a reset, with a storage that never       *)
(* fails, through its first and second save.                                *)

\* Most observations recorded after the reset.
MaxFlushObs == 21

\* The state resetGhostModel leaves with a working storage.
InitFlush ==
    /\ ghostObservations = EmptyTable
    /\ totalObservations = 0
    /\ saved = Snapshot(EmptyTable, 0)
    /\ ghostModelConfidence = 0
    /\ TrackerInit
    /\ scene = NoScene
    /\ ret = NONE

FlushRecordStep ==
    /\ totalObservations < MaxFlushObs
    /\ \E m \in {UP, LEFT, NONE} :
          recordGhostMove(0, PersistGhostPos, PersistPacmanPos, m, TRUE)

FlushResetStep == resetGhostModel(TRUE)

NextFlush == FlushRecordStep \/ FlushResetStep

SpecFlush == InitFlush /\ [][NextFlush]_vars

\* The sum of the counts of a bucket, of a ghost's buckets, of a table.
BucketSum(obs) == obs[UP] + obs[DOWN] + obs[LEFT] + obs[RIGHT]
GhostSum(buckets) ==
    SumCounts([st \in DOMAIN buckets |-> BucketSum(buckets[st])], DOMAIN buckets)
TableSum(table) ==
    SumCounts([i \in DOMAIN table |-> GhostSum(table[i])], DOMAIN table)

\* C26: the persisted total is 10 * floor(totalObservations / 10), the
\* persisted counts are those of that many moves, and at most 9 recorded
\* moves are not persisted; the stored item changes only in a reset or when
\* the total reaches a multiple of 10.
C26_PersistedEveryTenth ==
    /\ saved.kind = "data"
    /\ saved.total = 10 * (totalObservations \div 10)
    /\ TableSum(saved.observations) = saved.total
    /\ totalObservations - saved.total \in 0 .. 9
    /\ totalObservations % 10 = 0 => saved.observations = ghostObservations

\* Nineteen moves recorded, the last nine not persisted.
C26_Witness ==
    /\ totalObservations = 19
    /\ saved.total = 10
    /\ TableSum(ghostObservations) = 19
    /\ TableSum(saved.observations) = 10


-----------------------------------------------------------------------------
(* SpecPrune: the searches a minimax controller starts for one decision, of *)
(* Pac-Man's controller and of a ghost's.                                   *)

PruneDepths == {0, 1, 2, 3, 4}

\* depth = depth || 3
DepthOr3(depth) == IF depth = 0 THEN 3 ELSE depth

\* The ghost positions with ghostPositions[idx1] replaced.
WithGhostAt(ghostPositions, idx1, pos) ==
    [i \in Indices(ghostPositions) |-> IF i = idx1 THEN pos ELSE ghostPositions[i]]

\* The root calls of PacmanControllers.minimax, one per valid move, as
\* <<pacmanPos, ghostPositions, depth, isMaximizing, alpha, beta>>.
PacmanRootCalls(map, pacmanPos, ghostPositions, depth) ==
    LET validMoves == getValidMoves(map, pacmanPos)
    IN [i \in Indices(validMoves) |->
           <<StepPos(pacmanPos, validMoves[i]), ghostPositions, DepthOr4(depth) - 1, FALSE,
             NegInf, PosInf>>]

\* The root calls of GhostControllers.minimax for the ghost at idx1: none
\* when that ghost is edible, which flees without a search.
GhostRootCalls(map, pacmanPos, ghostPositions, ghostStates, depth, idx1) ==
    LET validMoves == getValidMoves(map, ghostPositions[idx1])
    IN IF ghostStates[idx1].isEdible THEN << >>
       ELSE [i \in Indices(validMoves) |->
                <<pacmanPos, WithGhostAt(ghostPositions, idx1,
                                         StepPos(ghostPositions[idx1], validMoves[i])),
                  DepthOr3(depth) - 1, TRUE, NegInf, PosInf>>]

\* The beta of every call minimax makes below a call with this beta when no
\* loop breaks: both plies hand their own beta on.
RECURSIVE MinimaxBetas(_, _, _, _, _, _, _)
MinimaxBetas(map, pacmanPos, ghostPositions, ghostStates, depth, isMaximizing, beta) ==
    LET validMoves == getValidMoves(map, pacmanPos)
    IN {beta} \cup
       (IF depth = 0 \/ Len(validMoves) = 0 THEN {}
        ELSE IF isMaximizing
        THEN UNION {MinimaxBetas(map, StepPos(pacmanPos, validMoves[i]), ghostPositions,
                                 ghostStates, depth - 1, FALSE, beta) :
                       i \in Indices(validMoves)}
        ELSE MinimaxBetas(map, pacmanPos,
                          [i \in Indices(ghostPositions) |->
                              MinimaxGhostStep(map, pacmanPos, ghostPositions[i], ghostStates[i])],
                          ghostStates, depth - 1, TRUE, beta))

\* nodesRef.count and the betas after the root calls.
RECURSIVE RootTrace(_, _, _, _, _, _)
RootTrace(map, ghostStates, calls, i, nodes, betas) ==
    IF i > Len(calls) THEN [nodes |-> nodes, betas |-> betas]
    ELSE LET c == calls[i]
         IN RootTrace(map, ghostStates, calls, i + 1,
                      nodes + minimax(map, c[1], c[2], ghostStates, c[3], c[4], c[5], c[6]).nodes,
                      betas \cup MinimaxBetas(map, c[1], c[2], ghostStates, c[3], c[4], c[6]))

InitPrune ==
    /\ FreshModel
    /\ TrackerInit
    /\ ret = NONE
    /\ \E w \in ArenaWorlds, depth \in PruneDepths, who \in {"pacman", "ghost"} :
           scene = [op |-> "call", who |-> who, map |-> w.map, pacmanPos |-> w.pacmanPos,
                    ghostPositions |-> w.ghostPositions, ghostStates |-> w.ghostStates,
                    depth |-> depth]

PruneCalls ==
    IF scene.who = "pacman"
    THEN PacmanRootCalls(scene.map, scene.pacmanPos, scene.ghostPositions, scene.depth)
    ELSE GhostRootCalls(scene.map, scene.pacmanPos, scene.ghostPositions, scene.ghostStates,
                        scene.depth, 1)

PruneCall ==
    /\ scene.op = "call"
    /\ scene' = [scene EXCEPT !.op = "done"]
    /\ ret' = RootTrace(scene.map, scene.ghostStates, PruneCalls, 1, 0, {})
    /\ UNCHANGED <<modelVars, trackerVars>>

NextPrune == PruneCall

SpecPrune == InitPrune /\ [][NextPrune]_vars

\* The nodes of the whole tree below a call: every valid move at every
\* agent ply, one step of the ghosts at every ghost ply, down to depth 0.
RECURSIVE FullTreeNodes(_, _, _, _, _, _)
RECURSIVE FullTreeLoop(_, _, _, _, _, _, _)
FullTreeLoop(map, pacmanPos, ghostPositions, ghostStates, depth, validMoves, i) ==
    IF i > Len(validMoves) THEN 0
    ELSE FullTreeNodes(map, StepPos(pacmanPos, validMoves[i]), ghostPositions, ghostStates,
                       depth - 1, FALSE)
         + FullTreeLoop(map, pacmanPos, ghostPositions, ghostStates, depth, validMoves, i + 1)

FullTreeNodes(map, pacmanPos, ghostPositions, ghostStates, depth, isMaximizing) ==
    LET validMoves == getValidMoves(map, pacmanPos)
    IN IF depth = 0 \/ Len(validMoves) = 0 THEN 1
       ELSE IF isMaximizing
       THEN 1 + FullTreeLoop(map, pacmanPos, ghostPositions, ghostStates, depth, validMoves, 1)
       ELSE 1 + FullTreeNodes(map, pacmanPos,
                              [i \in Indices(ghostPositions) |->
                                  MinimaxGhostStep(map, pacmanPos, ghostPositions[i],
                                                   ghostStates[i])],
                              ghostStates, depth - 1, TRUE)

RECURSIVE FullRootNodes(_, _, _, _)
FullRootNodes(map, ghostStates, calls, i) ==
    IF i > Len(calls) THEN 0
    ELSE FullTreeNodes(map, calls[i][1], calls[i][2], ghostStates, calls[i][3], calls[i][4])
         + FullRootNodes(map, ghostStates, calls, i + 1)

\* C27: in the searches of both minimax controllers every call has beta =
\* +Infinity, and the search visits every node of the whole tree: no
\* candidate of an agent ply is cut off.
C27_BetaInfiniteNothingPruned ==
    scene.op = "done" =>
        /\ ret.betas \subseteq {PosInf}
        /\ ret.nodes = FullRootNodes(scene.map, scene.ghostStates, PruneCalls, 1)

\* Pac-Man's controller searched to depth 4 against two ghosts, through
\* agent plies with several candidates.
C27_Witness ==
    /\ scene.op = "done"
    /\ scene.who = "pacman"
    /\ scene.depth = 4
    /\ Len(scene.ghostPositions) = 2
    /\ ret.betas = {PosInf}
    /\ ret.nodes >= 14


-----------------------------------------------------------------------------
(* Claim on the counts of the observation table, under SpecModel.           *)

\* C28: every bucket of the table holds a count in Nat for each of the four
\* directions, and the counts of all ghosts, situations and directions add
\* up to totalObservations.
C28_CountsAddUpToTotal ==
    /\ \A i \in DOMAIN ghostObservations :
           \A st \in DOMAIN ghostObservations[i] :
               /\ DOMAIN ghostObservations[i][st] = Dirs
               /\ \A d \in Dirs : ghostObservations[i][st][d] \in Nat
    /\ TableSum(ghostObservations) = totalObservations

\* From the empty model, with nothing ever stored, two moves were recorded
\* in buckets of two ghosts.
C28_Witness ==
    /\ saved = NoItem
    /\ totalObservations = 2
    /\ \A i \in RecordedGhosts : DOMAIN ghostObservations[i] # {}


-----------------------------------------------------------------------------
(* Claim on the direction a controller returns, under SpecCtl.              *)

\* C29: a controller called for an agent with a valid move returns one of
\* the agent's valid moves.
C29_ReturnsValidMove ==
    (scene.op = "done" /\ ~BoxedIn)
    => \E i \in Indices(getValidMoves(scene.map, scene.pacmanPos)) :
           ret = getValidMoves(scene.map, scene.pacmanPos)[i]


-----------------------------------------------------------------------------
(* The benchmark's cancellation and its run limit, under SpecGame.          *)

\* C30: while benchmarkCancelled stays set, that is from cancelBenchmark
\* until the next startBenchmark, no step (benchmarkLoop, mainLoop's
\* loseLife, a new game, ...) records a benchmark run or starts one, and the
\* benchmark stays off; and no algorithm ever has more than
\* benchmarkRunsPerAlgo recorded runs.
C30_CancelStopsBenchmark ==
    [][/\ (scene.benchmarkCancelled /\ scene'.benchmarkCancelled)
          => /\ scene'.runs = scene.runs
             /\ scene'.started = scene.started
             /\ ~scene'.benchmarkMode
       /\ \A a \in AlgoIndices : scene'.runs[a] <= MaxRuns]_vars

\* The benchmark was cancelled after the first algorithm's runs were all
\* recorded; a game was started afterwards and a life lost in it through
\* mainLoop, and the recorded runs are as they were at the cancellation.
C30_Witness ==
    /\ scene.benchmarkCancelled
    /\ ~scene.benchmarkMode
    /\ scene.runs[0] = MaxRuns
    /\ scene.runs[1] = 1
    /\ scene.started = MaxRuns + 2
    /\ scene.lives = StartLives - 1
    /\ scene.state = "PLAYING"

====
